---- MODULE Spec2Model ----
(***************************************************************************)
(* Company Watch: the trading decision engine of src/trader.py over the    *)
(* active_positions, decision_log, reports and price_snapshots tables of   *)
(* src/db.py, with the price tracker of src/tracker.py.                    *)
(*                                                                         *)
(* Conventions.  A nullable SQL column holds NULL (the empty sequence) or  *)
(* <<v>>.  A percentage computed by calculate_pnl is kept as the exact     *)
(* fraction num/den (den > 0); on the price domain below every comparison  *)
(* the code makes on the float value agrees with the comparison on the     *)
(* fraction.  A reason string is the sequence of its parts, so that        *)
(* "FADE: " + reason is <<"FADE:">> \o reason.                             *)
(***************************************************************************)
EXTENDS Integers, Sequences, FiniteSets, TLC

\* ---------------------------------------------------------------- bounds
MaxRows == 3
MaxLog == 3
MaxReports == 1
MaxSnaps == 2
MaxTime == 1

\* ------------------------------------------------------- config.py values
WATCHED_TICKER == "BABA"
STANCES == {"BUY", "SELL", "HOLD", "FADE"}
CONFIDENCE_ACT == 65
CONFIDENCE_WATCH == 45
PROFIT_TAKE_PCT == 15
PROFIT_TAKE_STRONG_PCT == 25
LOSS_STOP_PCT == -10
LOSS_STOP_HARD_PCT == -15
DRAWDOWN_FROM_PEAK_PCT == 5
OVERRIDE_PRICE_MOVE_PCT == 8
OVERRIDE_MARKET_CRASH_PCT == -3
DUCK_COVER_ENABLED == TRUE
DUCK_MIN_CONFIDENCE == 60

\* ------------------------------------------------------------ input sets
Tickers == {"BABA", "NVDA"}
Prices == {85, 100, 115}
\* The (stance, confidence) pairs of the reports the scanner ingests.
ReportKinds == {<<"BUY", 50>>, <<"BUY", 65>>, <<"BUY", 80>>, <<"BUY", 90>>, <<"FADE", 45>>, <<"HOLD", 50>>, <<"SELL", 0>>, <<"SELL", 10>>, <<"SELL", 65>>}
SpyChanges == {-3, 0}

NULL == <<>>
Some(v) == <<v>>
Val(o) == o[1]
Opt(S) == {NULL} \cup {Some(v) : v \in S}

\* Python truthiness of a nullable number: None and 0 are falsy.
Truthy(o) == o # NULL /\ Val(o) # 0

Max(a, b) == IF a >= b THEN a ELSE b
Min(a, b) == IF a <= b THEN a ELSE b
Abs(a) == IF a < 0 THEN -a ELSE a

VARIABLES positions, decision_log, reports, price_snapshots, passive_position, clock, last, tracing

vars == <<positions, decision_log, reports, price_snapshots, passive_position, clock, last, tracing>>

\* ------------------------------------------------------------- fractions
Frac(n, d) == [num |-> n, den |-> d]
FracSub(a, b) == Frac(a.num * b.den - b.num * a.den, a.den * b.den)
FracLeq(a, t) == a.num <= t * a.den
FracGeq(a, t) == a.num >= t * a.den
FracLt(a, t) == a.num < t * a.den
FracGt(a, t) == a.num > t * a.den
FracAbs(a) == Frac(Abs(a.num), a.den)

\* calculate_pnl with the SHORT branch lost: every position is valued as a LONG.
calculate_pnl_nodir(entry_price, current_price, direction) ==
    IF ~Truthy(entry_price) THEN Frac(0, 1)
    ELSE Frac((current_price - Val(entry_price)) * 100, Val(entry_price))

\* tracker.calculate_pnl
calculate_pnl(entry_price, current_price, direction) ==
    IF ~Truthy(entry_price) THEN Frac(0, 1)
    ELSE IF direction = "SHORT"
         THEN Frac((Val(entry_price) - current_price) * 100, Val(entry_price))
         ELSE Frac((current_price - Val(entry_price)) * 100, Val(entry_price))

\* ---------------------------------------------------------- the database
\* The ids of the rows of ticker t with closed_at IS NULL.
OpenIds(P, t) == {i \in 1..Len(P) : P[i].ticker = t /\ P[i].closed_at = NULL}

SetMax(S) == CHOOSE m \in S : \A x \in S : x <= m

\* db.get_current_position: the id of the open row of greatest id, 0 for None.
get_current_position(P, t) == IF OpenIds(P, t) = {} THEN 0 ELSE SetMax(OpenIds(P, t))

\* The INSERT of get_or_create_position, with the schema's column defaults.
FlatRow(id, t) ==
    [id |-> id, ticker |-> t, state |-> "FLAT", direction |-> "NULL",
     entry_price |-> NULL, entry_time |-> NULL, entry_reason |-> NULL,
     entry_report_id |-> NULL,
     exit_price |-> NULL, exit_time |-> NULL, exit_reason |-> NULL,
     exit_report_id |-> NULL,
     current_stance |-> "FADE", stance_confidence |-> Some(0),
     report_confidence |-> Some(0), house_confidence |-> Some(0),
     stance_report_id |-> NULL,
     is_ducking |-> FALSE, duck_exit_price |-> NULL, duck_exit_time |-> NULL,
     duck_reason |-> NULL,
     was_overridden |-> FALSE, override_reason |-> NULL,
     realised_pnl_pct |-> NULL, peak_price |-> NULL, trough_price |-> NULL,
     closed_at |-> NULL]

\* A database state handed through a handler: the two tables the engine writes.
DB(P, L) == [pos |-> P, log |-> L]

\* get_or_create_position inserting a placeholder whatever rows are open.
get_or_create_position_always(db, t) ==
    DB(Append(db.pos, FlatRow(Len(db.pos) + 1, t)), db.log)

\* trader.get_or_create_position
get_or_create_position(db, t) ==
    IF get_current_position(db.pos, t) # 0 THEN db
    ELSE DB(Append(db.pos, FlatRow(Len(db.pos) + 1, t)), db.log)

\* trader.log_decision: one appended decision_log row.
LogEntry(t, decision_type, report_id, old_stance, new_stance, confidence, reason, price, rc, hc) ==
    [ticker |-> t, decision_type |-> decision_type,
     trigger |-> IF Truthy(report_id) THEN "report" ELSE "autonomous",
     report_id |-> report_id, old_stance |-> old_stance, new_stance |-> new_stance,
     confidence |-> confidence, report_confidence |-> rc, house_confidence |-> hc,
     reason |-> reason, price_at_decision |-> price,
     spy_change_pct |-> NULL, dd_type |-> "NULL",
     is_override |-> FALSE, override_what |-> "NULL"]

log_decision(db, entry) == DB(db.pos, Append(db.log, entry))

\* exit_position closing the row without a decision log entry.
exit_position_silent(db, t, price, reason, report_id, now) ==
    LET id == get_current_position(db.pos, t) IN
    IF id = 0 \/ db.pos[id].state = "FLAT" THEN db
    ELSE LET pos == db.pos[id]
             pnl == calculate_pnl(pos.entry_price, price, pos.direction)
             row == [pos EXCEPT !.state = "FLAT", !.exit_price = Some(price),
                                !.exit_time = Some(now), !.exit_reason = Some(reason),
                                !.exit_report_id = report_id,
                                !.current_stance = "FADE",
                                !.stance_confidence = Some(0),
                                !.realised_pnl_pct = Some(pnl),
                                !.closed_at = Some(now)]
         IN DB([db.pos EXCEPT ![id] = row], db.log)

\* exit_position closing whatever open row the ticker has, FLAT included.
exit_position_anyrow(db, t, price, reason, report_id, now) ==
    LET id == get_current_position(db.pos, t) IN
    IF id = 0 THEN db
    ELSE LET pos == db.pos[id]
             pnl == calculate_pnl(pos.entry_price, price, pos.direction)
             row == [pos EXCEPT !.state = "FLAT", !.exit_price = Some(price),
                                !.exit_time = Some(now), !.exit_reason = Some(reason),
                                !.exit_report_id = report_id,
                                !.current_stance = "FADE",
                                !.stance_confidence = Some(0),
                                !.realised_pnl_pct = Some(pnl),
                                !.closed_at = Some(now)]
         IN log_decision(DB([db.pos EXCEPT ![id] = row], db.log),
                LogEntry(t, "EXIT", report_id, pos.current_stance, "FADE", Some(0),
                         reason, Some(price), NULL, NULL))

\* exit_position closing the row without storing the realised P&L.
exit_position_nopnl(db, t, price, reason, report_id, now) ==
    LET id == get_current_position(db.pos, t) IN
    IF id = 0 \/ db.pos[id].state = "FLAT" THEN db
    ELSE LET pos == db.pos[id]
             row == [pos EXCEPT !.state = "FLAT", !.exit_price = Some(price),
                                !.exit_time = Some(now), !.exit_reason = Some(reason),
                                !.exit_report_id = report_id,
                                !.current_stance = "FADE",
                                !.stance_confidence = Some(0),
                                !.closed_at = Some(now)]
         IN log_decision(DB([db.pos EXCEPT ![id] = row], db.log),
                LogEntry(t, "EXIT", report_id, pos.current_stance, "FADE", Some(0),
                         reason, Some(price), NULL, NULL))

\* trader.exit_position
exit_position(db, t, price, reason, report_id, now) ==
    LET id == get_current_position(db.pos, t) IN
    IF id = 0 \/ db.pos[id].state = "FLAT" THEN db
    ELSE LET pos == db.pos[id]
             pnl == calculate_pnl(pos.entry_price, price, pos.direction)
             row == [pos EXCEPT !.state = "FLAT", !.exit_price = Some(price),
                                !.exit_time = Some(now), !.exit_reason = Some(reason),
                                !.exit_report_id = report_id,
                                !.current_stance = "FADE",
                                !.stance_confidence = Some(0),
                                !.realised_pnl_pct = Some(pnl),
                                !.closed_at = Some(now)]
         IN log_decision(DB([db.pos EXCEPT ![id] = row], db.log),
                LogEntry(t, "EXIT", report_id, pos.current_stance, "FADE", Some(0),
                         reason, Some(price), NULL, NULL))

\* enter_position opening the new row without closing the one that is held.
enter_position_noclose(db, t, direction, price, reason, report_id, confidence, rc, hc, now) ==
    LET stance == IF direction = "LONG" THEN "BUY" ELSE "SELL"
        row == [FlatRow(Len(db.pos) + 1, t) EXCEPT
                   !.state = "HELD", !.direction = direction,
                   !.entry_price = Some(price), !.entry_time = Some(now),
                   !.entry_reason = Some(reason), !.entry_report_id = report_id,
                   !.current_stance = stance, !.stance_confidence = confidence,
                   !.report_confidence = rc, !.house_confidence = hc,
                   !.stance_report_id = report_id,
                   !.peak_price = Some(price), !.trough_price = Some(price)]
    IN log_decision(DB(Append(db.pos, row), db.log),
           LogEntry(t, "ENTRY", report_id, "FLAT", stance, confidence, reason,
                    Some(price), rc, hc))

\* trader.enter_position
enter_position(db, t, direction, price, reason, report_id, confidence, rc, hc, now) ==
    LET id == get_current_position(db.pos, t)
        d1 == IF id # 0 /\ db.pos[id].state # "FLAT"
              THEN exit_position(db, t, price, <<"Reversing:">> \o reason, report_id, now)
              ELSE db
        stance == IF direction = "LONG" THEN "BUY" ELSE "SELL"
        row == [FlatRow(Len(d1.pos) + 1, t) EXCEPT
                   !.state = "HELD", !.direction = direction,
                   !.entry_price = Some(price), !.entry_time = Some(now),
                   !.entry_reason = Some(reason), !.entry_report_id = report_id,
                   !.current_stance = stance, !.stance_confidence = confidence,
                   !.report_confidence = rc, !.house_confidence = hc,
                   !.stance_report_id = report_id,
                   !.peak_price = Some(price), !.trough_price = Some(price)]
    IN log_decision(DB(Append(d1.pos, row), d1.log),
           LogEntry(t, "ENTRY", report_id, "FLAT", stance, confidence, reason,
                    Some(price), rc, hc))

\* update_stance that also clears the watermarks of the position.
update_stance_clearing(db, t, stance, confidence, reason, report_id, rc, hc) ==
    LET id == get_current_position(db.pos, t) IN
    IF id = 0 THEN db
    ELSE LET pos == db.pos[id]
             row == [pos EXCEPT !.current_stance = stance,
                                !.stance_confidence = confidence,
                                !.report_confidence = rc, !.house_confidence = hc,
                                !.stance_report_id = report_id,
                                !.peak_price = NULL,
                                !.trough_price = NULL]
         IN log_decision(DB([db.pos EXCEPT ![id] = row], db.log),
                LogEntry(t, "STANCE_UPDATE", report_id, pos.current_stance, stance, confidence, reason, NULL, rc, hc))

\* trader.update_stance
update_stance(db, t, stance, confidence, reason, report_id, rc, hc) ==
    LET id == get_current_position(db.pos, t) IN
    IF id = 0 THEN db
    ELSE LET pos == db.pos[id]
             row == [pos EXCEPT !.current_stance = stance,
                                !.stance_confidence = confidence,
                                !.report_confidence = rc, !.house_confidence = hc,
                                !.stance_report_id = report_id]
         IN log_decision(DB([db.pos EXCEPT ![id] = row], db.log),
                LogEntry(t, "STANCE_UPDATE", report_id, pos.current_stance, stance, confidence, reason, NULL, rc, hc))

\* ------------------------------------------------- process_new_report
\* An answer of llm_trader.assess_report: decision, confidence level, the
\* optional house_confidence_pct and the reason text.
Answer(decision, level, pct) ==
    [decision |-> decision, confidence |-> level, house_confidence_pct |-> pct,
     reason |-> <<"llm_reason">>]

AssessAnswers ==
    {Answer("BUY", "HIGH", NULL), Answer("SELL", "HIGH", Some(30)),
     Answer("BUY", "MEDIUM", Some(50)), Answer("FADE", "LOW", NULL),
     Answer("SELL", "MEDIUM", NULL)}

\* report.get('report_confidence', 50) or 50
ReportConfidence(report) ==
    IF Truthy(report.report_confidence) THEN Val(report.report_confidence) ELSE 50

\* trader.process_new_report, lines 233-241: the house's own confidence.
HouseConfidence(rc, ans) ==
    IF ans = NULL THEN rc
    ELSE IF Val(ans).house_confidence_pct # NULL THEN Val(Val(ans).house_confidence_pct)
    ELSE IF Val(ans).confidence = "HIGH" THEN Max(rc + 15, 80)
    ELSE IF Val(ans).confidence = "LOW" THEN Min(rc - 20, 35)
    ELSE rc

\* trader.process_new_report, lines 247-249: the house overrides the report.
IsOverride(report_stance, rc, ans) ==
    /\ ans # NULL
    /\ Val(ans).decision # ""
    /\ Val(ans).decision # report_stance
    /\ \/ Val(ans).confidence = "HIGH"
       \/ Abs(HouseConfidence(rc, ans) - rc) >= 20

FinalStance(report, ans) ==
    IF IsOverride(report.report_stance, ReportConfidence(report), ans)
    THEN Val(ans).decision ELSE report.report_stance

FinalReason(report, ans) ==
    IF IsOverride(report.report_stance, ReportConfidence(report), ans)
    THEN <<"House Override:">> \o Val(ans).reason ELSE <<"report_rationale">>

\* A strict comparison in place of the inclusive one.
Acts_strict(conf) == conf > CONFIDENCE_ACT

\* The lower band's threshold in place of the activation threshold.
Acts_watch(conf) == conf >= CONFIDENCE_WATCH

\* trader.process_new_report, lines 265 and 268: final_confidence >= CONFIDENCE_ACT.
Acts(conf) == conf >= CONFIDENCE_ACT

\* The matrix with a reversal where the code only closes: an opposite stance on
\* a HELD position opens the other side.
DecisionMatrix_reversing(db, t, id, price, stance, conf, reason, report_id, rc, hc, now) ==
    LET pos == db.pos[id] IN
    IF pos.state = "FLAT" THEN
        IF stance = "BUY" /\ Acts(conf)
        THEN enter_position(db, t, "LONG", price, reason, report_id, Some(conf), Some(rc), Some(hc), now)
        ELSE IF stance = "SELL" /\ Acts(conf)
        THEN enter_position(db, t, "SHORT", price, reason, report_id, Some(conf), Some(rc), Some(hc), now)
        ELSE update_stance(db, t, stance, Some(conf), reason, report_id, Some(rc), Some(hc))
    ELSE IF pos.state = "HELD" THEN
        IF stance = "SELL" /\ pos.direction = "LONG"
        THEN enter_position(db, t, "SHORT", price, reason, report_id, Some(conf), Some(rc), Some(hc), now)
        ELSE IF stance = "BUY" /\ pos.direction = "SHORT"
        THEN enter_position(db, t, "LONG", price, reason, report_id, Some(conf), Some(rc), Some(hc), now)
        ELSE IF stance = "FADE"
        THEN exit_position(db, t, price, <<"FADE:">> \o reason, report_id, now)
        ELSE update_stance(db, t, stance, Some(conf), reason, report_id, Some(rc), Some(hc))
    ELSE db

\* trader.process_new_report, lines 263-286: the decision matrix, on the row
\* `id` read before it.
DecisionMatrix(db, t, id, price, stance, conf, reason, report_id, rc, hc, now) ==
    LET pos == db.pos[id] IN
    IF pos.state = "FLAT" THEN
        IF stance = "BUY" /\ Acts(conf)
        THEN enter_position(db, t, "LONG", price, reason, report_id, Some(conf), Some(rc), Some(hc), now)
        ELSE IF stance = "SELL" /\ Acts(conf)
        THEN enter_position(db, t, "SHORT", price, reason, report_id, Some(conf), Some(rc), Some(hc), now)
        ELSE update_stance(db, t, stance, Some(conf), reason, report_id, Some(rc), Some(hc))
    ELSE IF pos.state = "HELD" THEN
        IF stance = "SELL" /\ pos.direction = "LONG"
        THEN exit_position(db, t, price, reason, report_id, now)
        ELSE IF stance = "BUY" /\ pos.direction = "SHORT"
        THEN exit_position(db, t, price, reason, report_id, now)
        ELSE IF stance = "FADE"
        THEN exit_position(db, t, price, <<"FADE:">> \o reason, report_id, now)
        ELSE update_stance(db, t, stance, Some(conf), reason, report_id, Some(rc), Some(hc))
    ELSE db

\* trader.process_new_report, lines 288-298: flag the row read at the start.
MarkOverride(db, id, reason) ==
    IF db.pos[id].closed_at = NULL
    THEN DB([db.pos EXCEPT ![id] = [@ EXCEPT !.was_overridden = TRUE,
                                              !.override_reason = Some(reason)]],
            db.log)
    ELSE db

\* process_new_report creating the placeholder row before it looks at the quote.
process_new_report_eager(db, report, price, ans, now) ==
    IF price = NULL THEN get_or_create_position(db, WATCHED_TICKER)
    ELSE LET t == WATCHED_TICKER
             d0 == get_or_create_position(db, t)
             id == get_current_position(d0.pos, t)
             rc == ReportConfidence(report)
             hc == HouseConfidence(rc, ans)
             stance == FinalStance(report, ans)
             reason == FinalReason(report, ans)
             d1 == DecisionMatrix(d0, t, id, Val(price), stance, hc, reason,
                                  Some(report.id), rc, hc, now)
         IN IF IsOverride(report.report_stance, rc, ans)
            THEN MarkOverride(d1, id, reason) ELSE d1

\* trader.process_new_report: the database after the call.  price is NULL when
\* fetch_price_av yields nothing; ans is the advisor's answer, NULL when
\* llm_trader is None or assess_report returns None.
process_new_report(db, report, price, ans, now) ==
    IF price = NULL THEN db
    ELSE LET t == WATCHED_TICKER
             d0 == get_or_create_position(db, t)
             id == get_current_position(d0.pos, t)
             rc == ReportConfidence(report)
             hc == HouseConfidence(rc, ans)
             stance == FinalStance(report, ans)
             reason == FinalReason(report, ans)
             d1 == DecisionMatrix(d0, t, id, Val(price), stance, hc, reason,
                                  Some(report.id), rc, hc, now)
         IN IF IsOverride(report.report_stance, rc, ans)
            THEN MarkOverride(d1, id, reason) ELSE d1

\* ------------------------------------------------------- autonomous_dd
\* db.get_latest_report: the ids of the reports of ticker t of greatest
\* published_date (SQLite returns one of them).
LatestIds(R, t) ==
    {i \in 1..Len(R) : /\ R[i].ticker = t
                       /\ \A j \in 1..Len(R) : R[j].ticker = t => R[j].published_date <= R[i].published_date}

get_latest_report(R, t) == IF LatestIds(R, t) = {} THEN {NULL} ELSE {Some(R[i]) : i \in LatestIds(R, t)}

\* trader.autonomous_dd, lines 554-558: the price of the earliest snapshot of
\* ticker t at or after the report's published_date, NULL when there is none.
ReportSnap(S, t, pub) ==
    LET ids == {i \in 1..Len(S) : S[i].ticker = t /\ S[i].timestamp >= pub} IN
    IF ids = {} THEN NULL
    ELSE Some(S[CHOOSE i \in ids : \A j \in ids : S[i].timestamp <= S[j].timestamp].price)

\* The hard stop with an exclusive comparison.
HardStop_strict(pnl) == FracLt(pnl, LOSS_STOP_HARD_PCT)

\* CHECK 1, line 507
HardStop(pnl) == FracLeq(pnl, LOSS_STOP_HARD_PCT)

\* CHECK 2, lines 514-518
ProfitProtect(pos, pnl) ==
    /\ Truthy(pos.peak_price) /\ Truthy(pos.entry_price)
    /\ LET peak_pnl == calculate_pnl(pos.entry_price, Val(pos.peak_price), pos.direction) IN
       /\ FracGeq(peak_pnl, PROFIT_TAKE_PCT)
       /\ FracGeq(FracSub(peak_pnl, pnl), DRAWDOWN_FROM_PEAK_PCT)

\* The strong profit-take whatever the report's confidence.
StrongTake_anyconf(pnl, report) == FracGeq(pnl, PROFIT_TAKE_STRONG_PCT)

\* CHECK 3, lines 525-527
StrongTake(pnl, report) ==
    /\ FracGeq(pnl, PROFIT_TAKE_STRONG_PCT)
    /\ (IF report # NULL THEN Val(Val(report).report_confidence) ELSE 50) < 75

\* The market-crash check with an exclusive comparison.
MarketCrash_strict(spy, direction) ==
    spy # NULL /\ Val(spy) < OVERRIDE_MARKET_CRASH_PCT /\ direction = "LONG"

\* CHECK 4, lines 535-537
MarketCrash(spy, direction) ==
    spy # NULL /\ Val(spy) <= OVERRIDE_MARKET_CRASH_PCT /\ direction = "LONG"

\* CHECK 5, lines 552-571
HorseBolted(S, t, report, price, direction) ==
    /\ report # NULL /\ Truthy(Val(report).report_confidence)
    /\ LET snap == ReportSnap(S, t, Val(report).published_date) IN
       /\ snap # NULL
       /\ LET move == Frac((price - Val(snap)) * 100, Val(snap)) IN
          /\ FracGeq(FracAbs(move), OVERRIDE_PRICE_MOVE_PCT)
          /\ \/ direction = "LONG" /\ FracLt(move, -OVERRIDE_PRICE_MOVE_PCT)
             \/ direction = "SHORT" /\ FracGt(move, OVERRIDE_PRICE_MOVE_PCT)

\* CHECK 6, lines 578-580: llm is whether llm_trader is given, loss the answer
\* of assess_loss.
SoftStop(pnl, llm, loss) ==
    FracLeq(pnl, LOSS_STOP_PCT) /\ llm /\ loss # NULL /\ Val(loss) = "EXIT"

\* The advisor check acting on EXIT alone.
AdvisorActs_exitonly(llm, check) == llm /\ check # NULL /\ Val(check) = "EXIT"

\* CHECK 7, lines 586-593: check is the answer of autonomous_check.
AdvisorActs(llm, check) == llm /\ check # NULL /\ Val(check) \in {"EXIT", "REVERSE"}

\* The cascade with the profit rules tried before the hard stop.
FiredRule_profitfirst(S, t, pos, report, price, spy, llm, loss, check) ==
    LET pnl == calculate_pnl(pos.entry_price, price, pos.direction) IN
    IF ProfitProtect(pos, pnl) THEN 2
    ELSE IF StrongTake(pnl, report) THEN 3
    ELSE IF HardStop(pnl) THEN 1
    ELSE IF MarketCrash(spy, pos.direction) THEN 4
    ELSE IF HorseBolted(S, t, report, price, pos.direction) THEN 5
    ELSE IF SoftStop(pnl, llm, loss) THEN 6
    ELSE IF AdvisorActs(llm, check) THEN 7
    ELSE 0

\* The cascade closing the position when no check matches.
FiredRule_fallthrough(S, t, pos, report, price, spy, llm, loss, check) ==
    LET pnl == calculate_pnl(pos.entry_price, price, pos.direction) IN
    IF HardStop(pnl) THEN 1
    ELSE IF ProfitProtect(pos, pnl) THEN 2
    ELSE IF StrongTake(pnl, report) THEN 3
    ELSE IF MarketCrash(spy, pos.direction) THEN 4
    ELSE IF HorseBolted(S, t, report, price, pos.direction) THEN 5
    ELSE IF SoftStop(pnl, llm, loss) THEN 6
    ELSE IF AdvisorActs(llm, check) THEN 7
    ELSE 1

\* trader.autonomous_dd, lines 506-599: the number of the check that acts, in
\* the order the code tries them; 0 when none does.
FiredRule(S, t, pos, report, price, spy, llm, loss, check) ==
    LET pnl == calculate_pnl(pos.entry_price, price, pos.direction) IN
    IF HardStop(pnl) THEN 1
    ELSE IF ProfitProtect(pos, pnl) THEN 2
    ELSE IF StrongTake(pnl, report) THEN 3
    ELSE IF MarketCrash(spy, pos.direction) THEN 4
    ELSE IF HorseBolted(S, t, report, price, pos.direction) THEN 5
    ELSE IF SoftStop(pnl, llm, loss) THEN 6
    ELSE IF AdvisorActs(llm, check) THEN 7
    ELSE 0

\* The external calls a pass makes: fetch_spy_price is reached when checks 1-3
\* did not return, assess_loss when checks 1-5 did not and the soft stop level
\* is met, autonomous_check when checks 1-6 did not.
Consulted(S, t, pos, report, price, spy, llm, loss, check) ==
    LET pnl == calculate_pnl(pos.entry_price, price, pos.direction)
        rule == FiredRule(S, t, pos, report, price, spy, llm, loss, check)
    IN (IF rule \notin {1, 2, 3} THEN {"spy"} ELSE {})
       \cup (IF rule \notin {1, 2, 3, 4, 5} /\ FracLeq(pnl, LOSS_STOP_PCT) /\ llm THEN {"loss"} ELSE {})
       \cup (IF rule \notin {1, 2, 3, 4, 5, 6} /\ llm THEN {"check"} ELSE {})

\* trader.autonomous_dd: the database after the pass.
autonomous_dd(db, S, report, price, spy, llm, loss, check, now) ==
    LET t == WATCHED_TICKER
        id == get_current_position(db.pos, t)
    IN
    IF id = 0 \/ db.pos[id].state = "FLAT" THEN db
    ELSE IF price = NULL THEN db
    ELSE LET pos == db.pos[id]
             p == Val(price)
             rule == FiredRule(S, t, pos, report, p, spy, llm, loss, check)
         IN CASE rule = 1 -> exit_position(db, t, p, <<"HARD STOP">>, NULL, now)
              [] rule = 2 -> exit_position(db, t, p, <<"PROFIT PROTECT">>, NULL, now)
              [] rule = 3 -> exit_position(db, t, p, <<"PROFIT TAKE">>, NULL, now)
              [] rule = 4 ->
                   log_decision(exit_position(db, t, p, <<"MARKET CRASH OVERRIDE">>, NULL, now),
                       [LogEntry(t, "OVERRIDE", NULL, pos.current_stance, "FADE", Some(0), <<"Market crash detected">>, Some(p), NULL, NULL)
                          EXCEPT !.spy_change_pct = spy, !.is_override = TRUE,
                                 !.override_what = "market_crash"])
              [] rule = 5 -> exit_position(db, t, p, <<"HORSE BOLTED">>, NULL, now)
              [] rule = 6 -> exit_position(db, t, p, <<"AI STOP:", "llm_reason">>, NULL, now)
              [] rule = 7 /\ Val(check) = "EXIT" ->
                   exit_position(db, t, p, <<"AI DD EXIT:", "llm_reason">>, NULL, now)
              [] rule = 7 /\ Val(check) = "REVERSE" ->
                   enter_position(
                       exit_position(db, t, p, <<"AI DD REVERSE:", "llm_reason">>, NULL, now),
                       t, IF pos.direction = "LONG" THEN "SHORT" ELSE "LONG", p,
                       <<"AI REVERSE:", "llm_reason">>, NULL, NULL, NULL, NULL, now)
              [] OTHER -> db

\* -------------------------------------------------------- track_prices
\* tracker.track_prices, lines 108-113: a snapshot of the ticker younger than
\* 50 minutes exists (one taken at the present clock value).
RecentSnapshot(S, t, now) == \E i \in 1..Len(S) : S[i].ticker = t /\ S[i].timestamp = now

\* tracker.track_prices, lines 121-139: the watermarks of the open HELD row.
UpdateWatermarks(P, t, price) ==
    LET id == get_current_position(P, t) IN
    IF id # 0 /\ Truthy(P[id].entry_price) /\ P[id].state # "FLAT"
    THEN LET peak == IF Truthy(P[id].peak_price) THEN Val(P[id].peak_price) ELSE price
             trough == IF Truthy(P[id].trough_price) THEN Val(P[id].trough_price) ELSE price
         IN [P EXCEPT ![id] = [@ EXCEPT
                !.peak_price = IF price > peak THEN Some(price) ELSE @,
                !.trough_price = IF price < trough THEN Some(price) ELSE @]]
    ELSE P

\* ----------------------------------------------------- passive position
\* db.get_passive_position: the index of the row of ticker t with is_active
\* set, 0 for None (ticker is UNIQUE in the table).
get_passive_position(PP, t) ==
    IF \E i \in 1..Len(PP) : PP[i].ticker = t /\ PP[i].is_active
    THEN CHOOSE i \in 1..Len(PP) : PP[i].ticker = t /\ PP[i].is_active
    ELSE 0

\* ensure_passive_position rewriting the entry of an existing row at the quote.
ensure_passive_position_refresh(PP, t, price, now) ==
    IF get_passive_position(PP, t) # 0
    THEN IF price = NULL THEN PP
         ELSE [PP EXCEPT ![get_passive_position(PP, t)] = [@ EXCEPT !.entry_price = price, !.entry_time = Some(now)]]
    ELSE IF price = NULL THEN PP
    ELSE IF \E i \in 1..Len(PP) : PP[i].ticker = t THEN PP
    ELSE Append(PP, [ticker |-> t, entry_price |-> price, entry_time |-> Some(now), is_active |-> TRUE])

\* tracker.ensure_passive_position: the passive_position table after the call;
\* INSERT OR IGNORE inserts nothing when the ticker already has a row.
ensure_passive_position(PP, t, price, now) ==
    IF get_passive_position(PP, t) # 0 THEN PP
    ELSE IF price = NULL THEN PP
    ELSE IF \E i \in 1..Len(PP) : PP[i].ticker = t THEN PP
    ELSE Append(PP, [ticker |-> t, entry_price |-> price, entry_time |-> Some(now), is_active |-> TRUE])

\* ------------------------------------------- pre-market and duck-and-cover
\* An answer of llm_trader.premarket_check.
PremarketAnswer(action, urgency, duck) ==
    [action |-> action, urgency |-> urgency, duck_and_cover |-> duck, reason |-> <<"llm_reason">>]

PremarketAnswers ==
    {PremarketAnswer("HOLD", "LOW", FALSE), PremarketAnswer("DUCK", "MEDIUM", TRUE),
     PremarketAnswer("EXIT", "HIGH", FALSE), PremarketAnswer("EXIT", "LOW", FALSE),
     PremarketAnswer("EXIT", "HIGH", TRUE)}

\* The flag set on whatever open row the ticker has, HELD or not.
PremarketDuck_anystate(db, t, id, ans, price) ==
    IF ans.duck_and_cover /\ id # 0 /\ DUCK_COVER_ENABLED
    THEN log_decision(
             DB([db.pos EXCEPT ![id] = [@ EXCEPT !.is_ducking = TRUE, !.duck_reason = Some(ans.reason)]], db.log),
             [LogEntry(t, "PREMARKET_DUCK", NULL, db.pos[id].current_stance, "DUCK", Some(0), <<"Pre-market: flagged for duck-and-cover.">> \o ans.reason, price, NULL, NULL)
                EXCEPT !.trigger = "premarket", !.dd_type = "premarket"])
    ELSE db

\* trader.premarket_dd, lines 343-361: flag the HELD position for ducking.
PremarketDuck(db, t, id, ans, price) ==
    IF ans.duck_and_cover /\ id # 0 /\ db.pos[id].state = "HELD" /\ DUCK_COVER_ENABLED
    THEN log_decision(
             DB([db.pos EXCEPT ![id] = [@ EXCEPT !.is_ducking = TRUE, !.duck_reason = Some(ans.reason)]], db.log),
             [LogEntry(t, "PREMARKET_DUCK", NULL, db.pos[id].current_stance, "DUCK", Some(0), <<"Pre-market: flagged for duck-and-cover.">> \o ans.reason, price, NULL, NULL)
                EXCEPT !.trigger = "premarket", !.dd_type = "premarket"])
    ELSE db

\* The pre-market exit at any urgency.
PremarketExit_anyurgency(db, t, pos, ans, price, now) ==
    IF ans.action = "EXIT" /\ pos.state = "HELD"
    THEN log_decision(
             IF price # NULL
             THEN exit_position(db, t, Val(price), <<"PRE-MARKET URGENT EXIT:">> \o ans.reason, NULL, now)
             ELSE db,
             [LogEntry(t, "PREMARKET_EXIT", NULL, pos.current_stance, "FADE", Some(0), <<"Pre-market urgent exit:">> \o ans.reason, price, NULL, NULL)
                EXCEPT !.trigger = "premarket", !.dd_type = "premarket"])
    ELSE db

\* trader.premarket_dd, lines 363-374: the urgent exit; pos is the row read at
\* the start of the call.
PremarketExit(db, t, pos, ans, price, now) ==
    IF ans.action = "EXIT" /\ ans.urgency = "HIGH" /\ pos.state = "HELD"
    THEN log_decision(
             IF price # NULL
             THEN exit_position(db, t, Val(price), <<"PRE-MARKET URGENT EXIT:">> \o ans.reason, NULL, now)
             ELSE db,
             [LogEntry(t, "PREMARKET_EXIT", NULL, pos.current_stance, "FADE", Some(0), <<"Pre-market urgent exit:">> \o ans.reason, price, NULL, NULL)
                EXCEPT !.trigger = "premarket", !.dd_type = "premarket"])
    ELSE db

\* trader.premarket_dd: llm is whether llm_trader is given, ans the answer of
\* premarket_check (NULL for none).
premarket_dd(db, llm, price, ans, now) ==
    LET t == WATCHED_TICKER
        id == get_current_position(db.pos, t)
    IN
    IF ~llm \/ ans = NULL THEN db
    ELSE LET d1 == PremarketDuck(db, t, id, Val(ans), price) IN
         IF id = 0 THEN d1 ELSE PremarketExit(d1, t, db.pos[id], Val(ans), price, now)

\* The sell phase without the UPDATE that records the duck exit.
DuckSell_norecord(enabled, db, price, now) ==
    LET t == WATCHED_TICKER
        id == get_current_position(db.pos, t)
    IN
    IF ~enabled THEN db
    ELSE IF id = 0 \/ db.pos[id].state # "HELD" THEN db
    ELSE IF ~db.pos[id].is_ducking THEN db
    ELSE IF price = NULL THEN db
    ELSE exit_position(db, t, Val(price), <<"DUCK-AND-COVER SELL:">> \o Val(db.pos[id].duck_reason), NULL, now)

\* trader.duck_and_cover_sell, lines 383-413, with the value of
\* DUCK_COVER_ENABLED as a parameter.
DuckSell(enabled, db, price, now) ==
    LET t == WATCHED_TICKER
        id == get_current_position(db.pos, t)
    IN
    IF ~enabled THEN db
    ELSE IF id = 0 \/ db.pos[id].state # "HELD" THEN db
    ELSE IF ~db.pos[id].is_ducking THEN db
    ELSE IF price = NULL THEN db
    ELSE exit_position(
             DB([db.pos EXCEPT ![id] = [@ EXCEPT !.duck_exit_price = price, !.duck_exit_time = Some(now)]], db.log),
             t, Val(price), <<"DUCK-AND-COVER SELL:">> \o Val(db.pos[id].duck_reason), NULL, now)

\* trader.duck_and_cover_sell
duck_and_cover_sell(db, price, now) == DuckSell(DUCK_COVER_ENABLED, db, price, now)

\* An answer of llm_trader.assess_rebuy.
RebuyAnswer(action, pct) == [action |-> action, house_confidence_pct |-> pct]

RebuyAnswers == {RebuyAnswer("REBUY", 70), RebuyAnswer("REBUY", 50), RebuyAnswer("STAY_OUT", 70)}

\* The rebuy phase not listening to STAY_OUT.
duck_and_cover_rebuy_deaf(db, report, price, ans, now) ==
    LET t == WATCHED_TICKER IN
    IF ~DUCK_COVER_ENABLED \/ report = NULL THEN db
    ELSE LET report_conf == IF Truthy(Val(report).report_confidence) THEN Val(Val(report).report_confidence) ELSE 0
             report_stance == Val(report).report_stance
             house_confidence == IF ans # NULL THEN Val(ans).house_confidence_pct ELSE report_conf
         IN
         IF report_conf < DUCK_MIN_CONFIDENCE THEN db
         ELSE IF price = NULL THEN db
         ELSE IF report_stance \in {"BUY", "HOLD"} /\ house_confidence >= CONFIDENCE_ACT
         THEN enter_position(db, t, "LONG", Val(price), <<"DUCK REBUY: Storm passed, re-entering long">>, NULL, Some(house_confidence), Some(report_conf), Some(house_confidence), now)
         ELSE IF report_stance = "SELL" /\ house_confidence >= CONFIDENCE_ACT
         THEN enter_position(db, t, "SHORT", Val(price), <<"DUCK REBUY: Storm passed, re-entering short">>, NULL, Some(house_confidence), Some(report_conf), Some(house_confidence), now)
         ELSE db

\* trader.duck_and_cover_rebuy: report is the latest report (NULL for none),
\* ans the answer of assess_rebuy (NULL when llm_trader is None or it gives none).
duck_and_cover_rebuy(db, report, price, ans, now) ==
    LET t == WATCHED_TICKER IN
    IF ~DUCK_COVER_ENABLED \/ report = NULL THEN db
    ELSE LET report_conf == IF Truthy(Val(report).report_confidence) THEN Val(Val(report).report_confidence) ELSE 0
             report_stance == Val(report).report_stance
             house_confidence == IF ans # NULL THEN Val(ans).house_confidence_pct ELSE report_conf
         IN
         IF report_conf < DUCK_MIN_CONFIDENCE THEN db
         ELSE IF price = NULL THEN db
         ELSE IF ans # NULL /\ Val(ans).action = "STAY_OUT" THEN db
         ELSE IF report_stance \in {"BUY", "HOLD"} /\ house_confidence >= CONFIDENCE_ACT
         THEN enter_position(db, t, "LONG", Val(price), <<"DUCK REBUY: Storm passed, re-entering long">>, NULL, Some(house_confidence), Some(report_conf), Some(house_confidence), now)
         ELSE IF report_stance = "SELL" /\ house_confidence >= CONFIDENCE_ACT
         THEN enter_position(db, t, "SHORT", Val(price), <<"DUCK REBUY: Storm passed, re-entering short">>, NULL, Some(house_confidence), Some(report_conf), Some(house_confidence), now)
         ELSE db

\* ------------------------------------------------------------ analytics
\* analytics._compute_override_stats: 'total', the decisions flagged is_override.
OverrideTotal(L) == Cardinality({k \in 1..Len(L) : L[k].is_override})

\* analytics._compute_override_stats: the decisions with trigger 'report', the
\* denominator of 'override_rate'.
ReportDecisions(L) == Cardinality({k \in 1..Len(L) : L[k].trigger = "report"})

\* A division as Python carries it out: the exact quotient, or the
\* ZeroDivisionError it raises on a zero divisor (kept as the fraction 0/0).
ZeroDivisionError == Frac(0, 0)
Div(n, d) == IF d = 0 THEN ZeroDivisionError ELSE Frac(n, d)

\* db.get_recent_decisions: the decisions of ticker t.
get_recent_decisions(L, t) == SelectSeq(L, LAMBDA e : e.ticker = t)

\* analytics.generate_analytics, lines 56-62: the closed rows of ticker t.
ClosedPositions(P, t) == {i \in 1..Len(P) : P[i].ticker = t /\ P[i].closed_at # NULL}

\* analytics._compute_summary, lines 131-134: 'win_rate'.
WinRate(P, t) ==
    LET closed == ClosedPositions(P, t)
        wins == {i \in closed : P[i].realised_pnl_pct # NULL /\ FracGt(Val(P[i].realised_pnl_pct), 0)}
        total_trades == Cardinality(closed)
    IN IF total_trades > 0 THEN Div(Cardinality(wins) * 100, total_trades) ELSE Frac(0, 1)

\* The override rate divided out whenever there are overrides.
OverrideRate_unguarded(L) ==
    IF OverrideTotal(L) = 0 THEN Frac(0, 1)
    ELSE Div(OverrideTotal(L) * 100, ReportDecisions(L))

\* analytics._compute_override_stats: 'override_rate'.
OverrideRate(L) ==
    IF OverrideTotal(L) = 0 THEN Frac(0, 1)
    ELSE IF ReportDecisions(L) > 0 THEN Div(OverrideTotal(L) * 100, ReportDecisions(L))
    ELSE Frac(0, 1)

\* --------------------------------------------------------------- history
\* What the last operation was, on what inputs, and the tables before it.
NoLast ==
    [op |-> "init", ticker |-> "NULL", price |-> NULL,
     report |-> NULL, answer |-> NULL, repeat |-> FALSE,
     spy |-> NULL, llm |-> FALSE, loss |-> NULL, check |-> NULL, consulted |-> {},
     stored |-> FALSE, pre |-> <<>>, pre_len |-> 0]

\* The history is kept only where `tracing` is set: the specifications that
\* state what one call does to the tables it found.
Record(r) == IF tracing THEN r ELSE NoLast

\* db.init_db: empty tables.
InitDB ==
    /\ positions = <<>>
    /\ decision_log = <<>>
    /\ reports = <<>>
    /\ price_snapshots = <<>>
    /\ passive_position = <<>>
    /\ clock = 0
    /\ last = NoLast

Init == InitDB /\ tracing = FALSE

InitTraced == InitDB /\ tracing = TRUE

Room == Len(positions) < MaxRows /\ Len(decision_log) < MaxLog

\* The re-entry is the fourth decision of a duck cycle (ENTRY, DUCK, EXIT,
\* ENTRY), so duck_and_cover_rebuy still runs on a log of MaxLog decisions.
RoomRebuy == Len(positions) < MaxRows /\ Len(decision_log) <= MaxLog

\* Time passes (an hour or more: past the tracker's 50 minute window).
Tick ==
    /\ clock < MaxTime
    /\ clock' = clock + 1
    /\ last' = Record([NoLast EXCEPT !.op = "tick"])
    /\ UNCHANGED <<passive_position, positions, decision_log, reports, price_snapshots, tracing>>

\* scanner.ingest_report: a parsed report of ticker t is inserted into reports.
IngestReport(Kinds) ==
    /\ Len(reports) < MaxReports
    /\ \E k \in Kinds :
         reports' = Append(reports,
             [id |-> Len(reports) + 1, ticker |-> WATCHED_TICKER, report_stance |-> k[1],
              report_confidence |-> Some(k[2]), published_date |-> clock])
    /\ last' = Record([NoLast EXCEPT !.op = "ingest_report"])
    /\ UNCHANGED <<passive_position, positions, decision_log, price_snapshots, clock, tracing>>

\* scanner.ingest_report for any watched stock: scan() walks WATCHED_STOCKS and
\* stores each report under its own ticker.
IngestReportFor(TickerSet, Kinds) ==
    /\ Len(reports) < MaxReports
    /\ \E t \in TickerSet, k \in Kinds :
         reports' = Append(reports,
             [id |-> Len(reports) + 1, ticker |-> t, report_stance |-> k[1],
              report_confidence |-> Some(k[2]), published_date |-> clock])
    /\ last' = Record([NoLast EXCEPT !.op = "ingest_report"])
    /\ UNCHANGED <<passive_position, positions, decision_log, price_snapshots, clock, tracing>>

\* runner._run_stock_cycle, line 367: get_or_create_position(ticker).
GetOrCreatePosition(TickerSet) ==
    /\ Room
    /\ \E t \in TickerSet :
         LET d == get_or_create_position(DB(positions, decision_log), t) IN
         /\ positions' = d.pos
         /\ decision_log' = d.log
         /\ last' = Record([NoLast EXCEPT !.op = "get_or_create_position", !.ticker = t,
                                   !.pre = positions, !.pre_len = Len(decision_log)])
    /\ UNCHANGED <<passive_position, reports, price_snapshots, clock, tracing>>

\* runner._run_stock_cycle, line 366: ensure_passive_position(ticker), at
\* whatever the market quotes at that moment.
EnsurePassivePosition(TickerSet, PriceSet) ==
    /\ \E t \in TickerSet, price \in Opt(PriceSet) :
         /\ passive_position' = ensure_passive_position(passive_position, t, price, clock)
         /\ last' = Record([NoLast EXCEPT !.op = "ensure_passive_position", !.ticker = t, !.price = price])
    /\ UNCHANGED <<positions, decision_log, reports, price_snapshots, clock, tracing>>

\* trader.exit_position(ticker, price, reason) called on its own, whatever the
\* ticker's rows are.
ExitPosition(TickerSet, PriceSet) ==
    /\ Room
    /\ \E t \in TickerSet, price \in PriceSet :
         LET d == exit_position(DB(positions, decision_log), t, price, <<"exit">>, NULL, clock) IN
         /\ positions' = d.pos
         /\ decision_log' = d.log
         /\ last' = Record([NoLast EXCEPT !.op = "exit_position", !.ticker = t, !.price = Some(price),
                                   !.pre = positions, !.pre_len = Len(decision_log)])
    /\ UNCHANGED <<passive_position, reports, price_snapshots, clock, tracing>>

\* trader.process_new_report(report, llm_trader): the advisor's answer is drawn
\* from Answers; NULL stands for llm_trader None and for assess_report
\* returning None alike.
ProcessNewReport(PriceSet, Answers) ==
    /\ Room
    /\ \E i \in 1..Len(reports), price \in Opt(PriceSet) :
       \E a \in IF price # NULL THEN Answers ELSE {NULL} :
         LET d == process_new_report(DB(positions, decision_log), reports[i], price, a, clock)
         IN
         /\ positions' = d.pos
         /\ decision_log' = d.log
         /\ last' = Record([NoLast EXCEPT !.op = "process_new_report",
                                   !.ticker = WATCHED_TICKER, !.price = price,
                                   !.report = Some(reports[i]), !.answer = a,
                                   !.repeat = (/\ last.op = "process_new_report"
                                               /\ last.report = Some(reports[i])
                                               /\ last.price = price
                                               /\ last.answer = a),
                                   !.pre = positions, !.pre_len = Len(decision_log)])
    /\ UNCHANGED <<passive_position, reports, price_snapshots, clock, tracing>>

\* tracker.track_prices(ticker)
TrackPrices(TickerSet, PriceSet) ==
    /\ Len(price_snapshots) < MaxSnaps
    /\ \E t \in TickerSet, price \in Opt(PriceSet) :
         LET skip == price = NULL \/ RecentSnapshot(price_snapshots, t, clock) IN
         /\ positions' = IF skip THEN positions ELSE UpdateWatermarks(positions, t, Val(price))
         /\ price_snapshots' = IF skip THEN price_snapshots
                               ELSE Append(price_snapshots, [ticker |-> t, timestamp |-> clock, price |-> Val(price)])
         /\ last' = Record([NoLast EXCEPT !.op = "track_prices", !.ticker = t, !.price = price,
                                   !.stored = ~skip,
                                   !.pre = positions, !.pre_len = Len(decision_log)])
    /\ UNCHANGED <<passive_position, decision_log, reports, clock, tracing>>

\* trader.autonomous_dd(llm_trader): the quote is fetched when a position is
\* held; the index change and the advisor's two answers are what the outside
\* world holds during a pass that got a quote.
AutonomousDD(PriceSet, SpySet, LossSet, CheckSet) ==
    /\ Room
    /\ LET id == get_current_position(positions, WATCHED_TICKER)
           held == id # 0 /\ positions[id].state # "FLAT"
       IN
       \E report \in get_latest_report(reports, WATCHED_TICKER), price \in IF held THEN Opt(PriceSet) ELSE {NULL}, llm \in BOOLEAN :
       \E spy \in IF price # NULL THEN SpySet ELSE {NULL}, loss \in IF llm /\ price # NULL THEN LossSet ELSE {NULL}, check \in IF llm /\ price # NULL THEN CheckSet ELSE {NULL} :
         LET d == autonomous_dd(DB(positions, decision_log), price_snapshots, report, price, spy, llm, loss, check, clock)
         IN
         /\ positions' = d.pos
         /\ decision_log' = d.log
         /\ last' = Record([NoLast EXCEPT !.op = "autonomous_dd", !.ticker = WATCHED_TICKER,
                                   !.price = price, !.report = report, !.spy = spy,
                                   !.llm = llm, !.loss = loss, !.check = check,
                                   !.consulted = IF id = 0 \/ positions[id].state = "FLAT" \/ price = NULL THEN {}
                                                 ELSE Consulted(price_snapshots, WATCHED_TICKER, positions[id], report, Val(price), spy, llm, loss, check),
                                   !.pre = positions, !.pre_len = Len(decision_log)])
    /\ UNCHANGED <<passive_position, reports, price_snapshots, clock, tracing>>

\* trader.premarket_dd(llm_trader)
PremarketDD(PriceSet, Answers) ==
    /\ Room
    /\ \E llm \in BOOLEAN :
       \E price \in IF llm THEN Opt(PriceSet) ELSE {NULL}, a \in IF llm THEN Answers ELSE {NULL} :
         LET d == premarket_dd(DB(positions, decision_log), llm, price, a, clock) IN
         /\ positions' = d.pos
         /\ decision_log' = d.log
         /\ last' = Record([NoLast EXCEPT !.op = "premarket_dd", !.ticker = WATCHED_TICKER,
                                   !.price = price, !.llm = llm, !.answer = a,
                                   !.pre = positions, !.pre_len = Len(decision_log)])
    /\ UNCHANGED <<passive_position, reports, price_snapshots, clock, tracing>>

\* trader.duck_and_cover_sell(llm_trader)
DuckAndCoverSell(PriceSet) ==
    /\ Room
    /\ LET id == get_current_position(positions, WATCHED_TICKER)
           flagged == id # 0 /\ positions[id].state = "HELD" /\ positions[id].is_ducking
       IN
       \E price \in IF flagged THEN Opt(PriceSet) ELSE {NULL} :
         LET d == duck_and_cover_sell(DB(positions, decision_log), price, clock) IN
         /\ positions' = d.pos
         /\ decision_log' = d.log
         /\ last' = Record([NoLast EXCEPT !.op = "duck_and_cover_sell", !.ticker = WATCHED_TICKER,
                                   !.price = price,
                                   !.pre = positions, !.pre_len = Len(decision_log)])
    /\ UNCHANGED <<passive_position, reports, price_snapshots, clock, tracing>>

\* trader.duck_and_cover_rebuy(llm_trader)
DuckAndCoverRebuy(PriceSet, Answers) ==
    /\ RoomRebuy
    /\ \E report \in get_latest_report(reports, WATCHED_TICKER) :
       \E price \in IF report # NULL /\ Val(Val(report).report_confidence) >= DUCK_MIN_CONFIDENCE THEN Opt(PriceSet) ELSE {NULL} :
       \E a \in IF price # NULL THEN Answers ELSE {NULL} :
         LET d == duck_and_cover_rebuy(DB(positions, decision_log), report, price, a, clock) IN
         /\ positions' = d.pos
         /\ decision_log' = d.log
         /\ last' = Record([NoLast EXCEPT !.op = "duck_and_cover_rebuy", !.ticker = WATCHED_TICKER,
                                   !.price = price, !.report = report, !.answer = a,
                                   !.pre = positions, !.pre_len = Len(decision_log)])
    /\ UNCHANGED <<passive_position, reports, price_snapshots, clock, tracing>>

\* The inputs the specifications draw from: report kinds, quotes, index
\* changes and advisor answers.
KindsBoth == {<<"BUY", 80>>, <<"SELL", 65>>}
KindsDD == {<<"BUY", 65>>, <<"BUY", 80>>, <<"SELL", 65>>}
WatchedOnly == {WATCHED_TICKER}
PricesFlat == {100}
PricesFlatUp == {100, 115}
PricesDownUp == {85, 115}
PricesDownFlat == {85, 100}
NoAnswer == {NULL}
SpyOpts == {NULL, Some(-3)}
LossOpts == {NULL, Some("EXIT")}
CheckOpts == {NULL, Some("EXIT"), Some("REVERSE")}
PremarketOpts == {NULL, Some(PremarketAnswer("DUCK", "MEDIUM", TRUE)), Some(PremarketAnswer("EXIT", "HIGH", FALSE))}
AssessOpts == Opt(AssessAnswers)

\* Every operation of the engine and the tracker, on small inputs.
Next ==
    \/ Tick
    \/ IngestReport(KindsBoth)
    \/ GetOrCreatePosition(Tickers)
    \/ ProcessNewReport(PricesFlatUp, NoAnswer)
    \/ TrackPrices(Tickers, PricesFlatUp)
    \/ AutonomousDD(PricesDownUp, SpyOpts, NoAnswer, CheckOpts)
    \/ PremarketDD(PricesFlat, PremarketOpts)
    \/ DuckAndCoverSell(PricesDownFlat)
    \/ DuckAndCoverRebuy(PricesFlat, NoAnswer)

Spec == Init /\ [][Next]_vars

\* Surveillance of positions opened by reports, on every quote, index change
\* and advisor answer.
NextDD ==
    \/ Tick
    \/ IngestReport(KindsDD)
    \/ ProcessNewReport(PricesDownFlat, NoAnswer)
    \/ TrackPrices(WatchedOnly, Prices)
    \/ AutonomousDD(Prices, SpyOpts, LossOpts, CheckOpts)

SpecDD == InitTraced /\ [][NextDD]_vars

\* Report processing alone, with every advisor answer.
NextReport ==
    \/ IngestReport(ReportKinds)
    \/ GetOrCreatePosition(WatchedOnly)
    \/ ProcessNewReport(PricesFlatUp, AssessOpts)

SpecReport == InitTraced /\ [][NextReport]_vars

\* The pre-market check and the two duck-and-cover phases around report
\* processing and surveillance, with every pre-market and re-entry answer.
KindsDuck == {<<"BUY", 50>>, <<"BUY", 62>>, <<"BUY", 80>>, <<"HOLD", 70>>, <<"SELL", 65>>}
PremarketAll == Opt(PremarketAnswers)
RebuyAll == Opt(RebuyAnswers)

NextDuck ==
    \/ IngestReport(KindsDuck)
    \/ ProcessNewReport(PricesFlat, NoAnswer)
    \/ AutonomousDD(PricesDownUp, NoAnswer, NoAnswer, NoAnswer)
    \/ PremarketDD(PricesFlat, PremarketAll)
    \/ DuckAndCoverSell(PricesDownFlat)
    \/ DuckAndCoverRebuy(PricesFlat, RebuyAll)

SpecDuck == InitTraced /\ [][NextDuck]_vars

\* Surveillance of a position entered at 100 on quotes 8% either side of the
\* price sampled after the report.
PricesEightPct == {92, 100, 108}

NextBolt ==
    \/ Tick
    \/ IngestReport(KindsBoth)
    \/ ProcessNewReport(PricesFlat, NoAnswer)
    \/ TrackPrices(WatchedOnly, PricesFlat)
    \/ AutonomousDD(PricesEightPct, SpyOpts, NoAnswer, CheckOpts)

SpecBolt == InitTraced /\ [][NextBolt]_vars

\* The passive line beside the engine: the buy-and-hold row is created by the
\* cycle while reports are processed, prices tracked and positions surveyed.
NextPassive ==
    \/ Tick
    \/ EnsurePassivePosition(Tickers, PricesFlatUp)
    \/ IngestReport(KindsBoth)
    \/ ProcessNewReport(PricesFlat, NoAnswer)
    \/ TrackPrices(WatchedOnly, PricesFlat)
    \/ AutonomousDD(PricesDownUp, NoAnswer, NoAnswer, NoAnswer)

SpecPassive == InitTraced /\ [][NextPassive]_vars

\* Two watched stocks: the scan stores a report for either, the cycle creates
\* the rows of both and the runner hands each stock's latest report to
\* process_new_report.
NextTickers ==
    \/ Tick
    \/ IngestReportFor(Tickers, ReportKinds)
    \/ GetOrCreatePosition(Tickers)
    \/ ProcessNewReport(PricesFlatUp, NoAnswer)

SpecTickers == InitTraced /\ [][NextTickers]_vars

\* exit_position called at any moment, between report processing and the
\* creation of rows.
NextExit ==
    \/ Tick
    \/ IngestReport(KindsBoth)
    \/ GetOrCreatePosition(Tickers)
    \/ ProcessNewReport(PricesFlat, NoAnswer)
    \/ ExitPosition(Tickers, PricesFlatUp)

SpecExit == InitTraced /\ [][NextExit]_vars

\* ================================================================ claims
\* The last operation, the row it found and the row it left.
IsPNR == last.op = "process_new_report" /\ last.price # NULL
PreId == get_current_position(last.pre, WATCHED_TICKER)
PreFlat == PreId = 0 \/ last.pre[PreId].state = "FLAT"
PreHeld == PreId # 0 /\ last.pre[PreId].state = "HELD"
CurId == get_current_position(positions, WATCHED_TICKER)
NowHeld == CurId # 0 /\ positions[CurId].state = "HELD"
Appended == Len(decision_log) - last.pre_len
NewEntry(k) == decision_log[last.pre_len + k]
LastStance == FinalStance(Val(last.report), last.answer)
LastConf == HouseConfidence(ReportConfidence(Val(last.report)), last.answer)
LastOverride == IsOverride(Val(last.report).report_stance, ReportConfidence(Val(last.report)), last.answer)
HeldRows(P) == {i \in 1..Len(P) : P[i].entry_price # NULL}
ClosedRows(P) == {i \in 1..Len(P) : P[i].closed_at # NULL}

\* C1 (as claimed): no ticker has two active_positions rows with closed_at NULL.
C1_OneOpenRow == \A t \in Tickers : Cardinality(OpenIds(positions, t)) <= 1

\* C8: every closed row stores realised_pnl_pct = (exit - entry) / entry * 100
\* when LONG and (entry - exit) / entry * 100 when SHORT (as fractions: cross
\* multiplied), which is 0 when the exit price is the entry price.
C8_RealisedPnl ==
    \A i \in ClosedRows(positions) :
        LET r == positions[i]
            e == Val(r.entry_price)
            x == Val(r.exit_price)
            pnl == Val(r.realised_pnl_pct)
        IN /\ r.realised_pnl_pct # NULL /\ r.entry_price # NULL /\ r.exit_price # NULL
           /\ pnl.den > 0
           /\ (r.direction = "LONG" => pnl.num * e = (x - e) * 100 * pnl.den)
           /\ (r.direction = "SHORT" => pnl.num * e = (e - x) * 100 * pnl.den)
           /\ r.direction \in {"LONG", "SHORT"}
           /\ (e = x => pnl.num = 0)

C8_Witness ==
    \E i \in ClosedRows(positions) :
        /\ positions[i].direction = "SHORT"
        /\ Val(positions[i].exit_price) > Val(positions[i].entry_price)
        /\ Val(positions[i].realised_pnl_pct).num < 0

\* The last autonomous_dd pass found a HELD position and a quote.
IsDD == last.op = "autonomous_dd" /\ PreHeld /\ last.price # NULL
PrePos == last.pre[PreId]

\* current P&L <= pct, from the entry price of the row and the quote.
PnlAtMost(pct) ==
    LET e == Val(PrePos.entry_price)
        p == Val(last.price)
    IN IF PrePos.direction = "SHORT" THEN (e - p) * 100 <= pct * e ELSE (p - e) * 100 <= pct * e

\* C9: HELD with a quote and current P&L <= LOSS_STOP_HARD_PCT (equality
\* included), LONG or SHORT: the pass closes the position at the quote and asks
\* neither the index nor the advisor.
C9_HardStop ==
    (IsDD /\ PnlAtMost(LOSS_STOP_HARD_PCT)) =>
        /\ positions[PreId].closed_at # NULL
        /\ positions[PreId].state = "FLAT"
        /\ positions[PreId].exit_price = last.price
        /\ last.consulted = {}

C9_Witness ==
    /\ IsDD /\ PrePos.direction = "SHORT"
    /\ (Val(PrePos.entry_price) - Val(last.price)) * 100 = LOSS_STOP_HARD_PCT * Val(PrePos.entry_price)
    /\ positions[PreId].closed_at # NULL

\* Whether check k of the cascade matches on the row and the inputs of the pass.
Matches(k) ==
    LET pnl == calculate_pnl(PrePos.entry_price, Val(last.price), PrePos.direction) IN
    CASE k = 1 -> HardStop(pnl)
      [] k = 2 -> ProfitProtect(PrePos, pnl)
      [] k = 3 -> StrongTake(pnl, last.report)
      [] k = 4 -> MarketCrash(last.spy, PrePos.direction)
      [] k = 5 -> HorseBolted(price_snapshots, WATCHED_TICKER, last.report, Val(last.price), PrePos.direction)
      [] k = 6 -> SoftStop(pnl, last.llm, last.loss)
      [] k = 7 -> AdvisorActs(last.llm, last.check)

Matching == {k \in 1..7 : Matches(k)}
FirstMatch == CHOOSE k \in Matching : \A j \in Matching : k <= j

ExitReasonOf(k) ==
    CASE k = 1 -> "HARD STOP"
      [] k = 2 -> "PROFIT PROTECT"
      [] k = 3 -> "PROFIT TAKE"
      [] k = 4 -> "MARKET CRASH OVERRIDE"
      [] k = 5 -> "HORSE BOLTED"
      [] k = 6 -> "AI STOP:"
      [] k = 7 -> IF last.check = Some("REVERSE") THEN "AI DD REVERSE:" ELSE "AI DD EXIT:"

\* The external calls made up to check k.
CallsUpTo(k) ==
    CASE k \in {1, 2, 3} -> {}
      [] k \in {4, 5} -> {"spy"}
      [] k = 6 -> {"spy", "loss"}
      [] k = 7 -> {"spy", "loss", "check"}

\* C10: when checks match in a pass, the position is closed once, with the exit
\* reason of the first matching check in the order hard stop, profit protect,
\* profit take, market crash, horse bolted, soft stop, advisor check, and no
\* call belonging to a later check is made.
C10_FirstRuleWins ==
    (IsDD /\ Matching # {}) =>
        /\ positions[PreId].closed_at # NULL
        /\ Head(Val(positions[PreId].exit_reason)) = ExitReasonOf(FirstMatch)
        /\ ClosedRows(positions) = ClosedRows(last.pre) \cup {PreId}
        /\ Cardinality({k \in 1..Appended : NewEntry(k).decision_type = "EXIT"}) = 1
        /\ last.consulted \subseteq CallsUpTo(FirstMatch)

C10_Witness ==
    /\ IsDD /\ {1, 2, 4} \subseteq Matching
    /\ AdvisorActs(last.llm, last.check)
    /\ Head(Val(positions[PreId].exit_reason)) = "HARD STOP"

\* C2 (as claimed): processing the identical report a second time, at the same
\* price and with the same advisor answer, changes neither the positions nor
\* the decision log.
C2_Idempotent ==
    (last.op = "process_new_report" /\ last.repeat) =>
        /\ positions = last.pre
        /\ Len(decision_log) = last.pre_len

\* C3: FLAT with final stance BUY (SELL) at final confidence >= CONFIDENCE_ACT:
\* a HELD LONG (SHORT) row is opened at the fetched price, exactly one decision,
\* an ENTRY, is logged, and without an advisor answer it carries the report's
\* confidence as report_confidence and as house_confidence.
C3_FlatOpens ==
    (IsPNR /\ PreFlat /\ LastStance \in {"BUY", "SELL"} /\ LastConf >= CONFIDENCE_ACT) =>
        /\ NowHeld
        /\ CurId = Len(positions)
        /\ CurId \notin HeldRows(last.pre)
        /\ positions[CurId].direction = (IF LastStance = "BUY" THEN "LONG" ELSE "SHORT")
        /\ positions[CurId].entry_price = last.price
        /\ Appended = 1
        /\ NewEntry(1).decision_type = "ENTRY"
        /\ (last.answer = NULL =>
              /\ NewEntry(1).report_confidence = Val(last.report).report_confidence
              /\ NewEntry(1).house_confidence = Val(last.report).report_confidence)

C3_Witness ==
    /\ IsPNR /\ PreFlat /\ last.answer = NULL
    /\ Val(last.report).report_stance = "BUY"
    /\ Val(last.report).report_confidence = Some(CONFIDENCE_ACT)
    /\ NowHeld /\ positions[CurId].direction = "LONG"

\* C4: FLAT with final stance HOLD or FADE, or BUY/SELL below CONFIDENCE_ACT:
\* no position is opened, the ticker stays FLAT, and exactly one decision, a
\* STANCE_UPDATE, is logged.
C4_FlatStays ==
    (IsPNR /\ PreFlat /\ (\/ LastStance \in {"HOLD", "FADE"}
                          \/ LastStance \in {"BUY", "SELL"} /\ LastConf < CONFIDENCE_ACT)) =>
        /\ CurId # 0 /\ positions[CurId].state = "FLAT"
        /\ HeldRows(positions) = HeldRows(last.pre)
        /\ Appended = 1
        /\ NewEntry(1).decision_type = "STANCE_UPDATE"

C4_Witness ==
    /\ IsPNR /\ PreFlat /\ LastStance = "BUY" /\ LastConf < CONFIDENCE_ACT
    /\ LastConf >= CONFIDENCE_WATCH
    /\ positions[CurId].state = "FLAT" /\ Appended = 1

\* C5: HELD with final stance FADE, SELL while LONG or BUY while SHORT: the
\* position is closed at the fetched price whatever the confidence, the exit
\* reason starts with "FADE:" in the FADE case, no row is opened and the ticker
\* has no HELD position afterwards.
C5_HeldCloses ==
    (IsPNR /\ PreHeld /\ (\/ LastStance = "FADE"
                          \/ LastStance = "SELL" /\ last.pre[PreId].direction = "LONG"
                          \/ LastStance = "BUY" /\ last.pre[PreId].direction = "SHORT")) =>
        /\ positions[PreId].closed_at # NULL
        /\ positions[PreId].state = "FLAT"
        /\ positions[PreId].exit_price = last.price
        /\ (LastStance = "FADE" => Head(Val(positions[PreId].exit_reason)) = "FADE:")
        /\ ~NowHeld
        /\ Len(positions) = Len(last.pre)

C5_Witness ==
    /\ IsPNR /\ PreHeld /\ LastStance = "SELL" /\ last.pre[PreId].direction = "LONG"
    /\ LastConf < CONFIDENCE_ACT
    /\ positions[PreId].closed_at # NULL

\* The row r with its stance and confidence columns taken from the row q.
WithStanceOf(r, q) ==
    [r EXCEPT !.current_stance = q.current_stance,
              !.stance_confidence = q.stance_confidence,
              !.report_confidence = q.report_confidence,
              !.house_confidence = q.house_confidence,
              !.stance_report_id = q.stance_report_id]

WithOverrideOf(r, q) ==
    [r EXCEPT !.was_overridden = q.was_overridden, !.override_reason = q.override_reason]

HeldKeeps ==
    /\ IsPNR /\ PreHeld
    /\ \/ last.pre[PreId].direction = "LONG" /\ LastStance \in {"BUY", "HOLD"}
       \/ last.pre[PreId].direction = "SHORT" /\ LastStance \in {"SELL", "HOLD"}

C7_Bands ==
    (IsPNR /\ Appended = 1 /\ NewEntry(1).decision_type = "STANCE_UPDATE") =>
        /\ (LastConf < CONFIDENCE_ACT /\ LastConf > CONFIDENCE_WATCH
              => positions[CurId].current_stance = "HOLD")
        /\ (LastConf <= CONFIDENCE_WATCH => positions[CurId].current_stance = "FADE")
\* The best P&L the watermarks of the row show: at peak_price for a LONG, at
\* trough_price for a SHORT.
BestPnl ==
    IF PrePos.direction = "SHORT"
    THEN calculate_pnl(PrePos.entry_price, Val(PrePos.trough_price), "SHORT")
    ELSE calculate_pnl(PrePos.entry_price, Val(PrePos.peak_price), "LONG")

DDPnl == calculate_pnl(PrePos.entry_price, Val(last.price), PrePos.direction)

\* C11 (as claimed): HELD LONG or SHORT whose best P&L since entry was >=
\* PROFIT_TAKE_PCT and whose current P&L is DRAWDOWN_FROM_PEAK_PCT points or
\* more below it, the hard stop not firing: the pass closes the position.
C11_ProfitProtect ==
    (/\ IsDD /\ ~HardStop(DDPnl)
     /\ FracGeq(BestPnl, PROFIT_TAKE_PCT)
     /\ FracGeq(FracSub(BestPnl, DDPnl), DRAWDOWN_FROM_PEAK_PCT)) =>
        positions[PreId].closed_at # NULL
\* Whether the pass closed the row it found, and the exit reason it wrote.
DDClosed == positions[PreId].closed_at # NULL
DDReason == Head(Val(positions[PreId].exit_reason))
LaterMatch(k) == \E j \in Matching : j > k

\* C12: checks 1 and 2 not matching and current P&L >= PROFIT_TAKE_STRONG_PCT:
\* with a latest report confidence below 75 the pass closes the position with
\* the profit-take exit; with 75 or more the profit-take exit is not made, and
\* the position stays HELD unless a later check matches.
C12_StrongTake ==
    (/\ IsDD /\ last.report # NULL /\ ~Matches(1) /\ ~Matches(2)
     /\ FracGeq(DDPnl, PROFIT_TAKE_STRONG_PCT)) =>
        IF Val(Val(last.report).report_confidence) < 75
        THEN DDClosed /\ DDReason = "PROFIT TAKE" /\ positions[PreId].exit_price = last.price
        ELSE /\ (DDClosed => DDReason # "PROFIT TAKE" /\ LaterMatch(3))
             /\ (~LaterMatch(3) => positions = last.pre /\ Appended = 0)

C12_Witness ==
    /\ IsDD /\ ~Matches(1) /\ ~Matches(2) /\ FracGeq(DDPnl, PROFIT_TAKE_STRONG_PCT)
    /\ Val(Val(last.report).report_confidence) < 75
    /\ DDClosed /\ DDReason = "PROFIT TAKE"

\* The same gain under a report of confidence 75 or more: the position rides.
C12_Rides ==
    /\ IsDD /\ ~Matches(1) /\ ~Matches(2) /\ FracGeq(DDPnl, PROFIT_TAKE_STRONG_PCT)
    /\ Val(Val(last.report).report_confidence) >= 75
    /\ ~DDClosed
\* Checks 1-3 do not match and the index change is at or below the crash level.
CrashCase ==
    /\ IsDD /\ ~Matches(1) /\ ~Matches(2) /\ ~Matches(3)
    /\ last.spy # NULL /\ Val(last.spy) <= OVERRIDE_MARKET_CRASH_PCT

C13_ShortStays == CrashCase /\ PrePos.direction = "SHORT" /\ ~DDClosed
\* The price sampled first at or after the latest report's publication, and the
\* move of the quote against the held direction since then, in percent.
SnapAfterReport == ReportSnap(price_snapshots, WATCHED_TICKER, Val(last.report).published_date)

AdverseMove ==
    LET snap == Val(SnapAfterReport)
        p == Val(last.price)
    IN IF PrePos.direction = "LONG" THEN Frac((snap - p) * 100, snap) ELSE Frac((p - snap) * 100, snap)

\* C14 (as claimed): checks 1-4 not matching and the quote OVERRIDE_PRICE_MOVE_PCT
\* or more (equality included) against the held direction since the sample
\* taken after the latest report: the pass closes the position.
C14_HorseBolted ==
    (/\ IsDD /\ ~Matches(1) /\ ~Matches(2) /\ ~Matches(3) /\ ~Matches(4)
     /\ last.report # NULL /\ SnapAfterReport # NULL
     /\ FracGeq(AdverseMove, OVERRIDE_PRICE_MOVE_PCT)) =>
        DDClosed
\* Checks 1-6 do not match and the advisor's surveillance answer is REVERSE.
ReverseCase ==
    /\ IsDD /\ \A k \in 1..6 : ~Matches(k)
    /\ last.llm /\ last.check = Some("REVERSE")

Opposite(direction) == IF direction = "LONG" THEN "SHORT" ELSE "LONG"

\* C15: in that case the HELD position is closed at the quote and a HELD row of
\* the opposite direction is opened whose entry_price is that exit price; the
\* log gains an EXIT then an ENTRY; the new row carries no confidence (none is
\* compared with CONFIDENCE_ACT).
C15_Reverse ==
    ReverseCase =>
        /\ DDClosed /\ DDReason = "AI DD REVERSE:"
        /\ positions[PreId].exit_price = last.price
        /\ Len(positions) = Len(last.pre) + 1
        /\ CurId = Len(positions) /\ NowHeld
        /\ positions[CurId].direction = Opposite(PrePos.direction)
        /\ positions[CurId].entry_price = positions[PreId].exit_price
        /\ positions[CurId].stance_confidence = NULL
        /\ Appended = 2
        /\ NewEntry(1).decision_type = "EXIT"
        /\ NewEntry(2).decision_type = "ENTRY"
        /\ NewEntry(2).price_at_decision = last.price

C15_Witness ==
    /\ ReverseCase /\ PrePos.direction = "LONG"
    /\ NowHeld /\ positions[CurId].direction = "SHORT"
    /\ positions[CurId].entry_price = last.price
\* C16: a pass that finds no position or a FLAT one, or in which no check
\* matches, changes no position row and appends no decision log entry.
C16_NoOpPass ==
    (/\ last.op = "autonomous_dd"
     /\ \/ ~PreHeld
        \/ IsDD /\ Matching = {}) =>
        /\ positions = last.pre
        /\ Appended = 0

C16_Witness ==
    /\ IsDD /\ Matching = {} /\ last.llm /\ "check" \in last.consulted
    /\ positions = last.pre /\ Appended = 0
\* The operations that abstain without a quote.
NeedsQuote == {"process_new_report", "autonomous_dd", "duck_and_cover_sell", "duck_and_cover_rebuy"}

\* C17: process_new_report, autonomous_dd, duck_and_cover_sell or
\* duck_and_cover_rebuy running without a quote changes no position row and
\* appends no decision log entry, and the report it was given is still in the
\* reports table to be processed again on the tables as they were.
C17_NoQuoteNoChange ==
    (last.op \in NeedsQuote /\ last.price = NULL) =>
        /\ positions = last.pre
        /\ Appended = 0
        /\ last.report # NULL => \E i \in 1..Len(reports) : reports[i] = Val(last.report)

C17_Witness ==
    /\ last.op = "process_new_report" /\ last.price = NULL /\ last.report # NULL
    /\ positions = <<>> /\ decision_log = <<>>

\* A flagged position at the open without a quote is not sold.
C17_DuckWaits ==
    /\ last.op = "duck_and_cover_sell" /\ last.price = NULL
    /\ PreHeld /\ last.pre[PreId].is_ducking /\ NowHeld
\* C18 (as claimed): the pre-market check running with an advisor but without
\* a quote changes no position row and appends no decision log entry; in
\* particular it logs no PREMARKET_EXIT while the position stays HELD.
C18_PremarketAbstains ==
    (last.op = "premarket_dd" /\ last.llm /\ last.price = NULL) =>
        /\ positions = last.pre
        /\ Appended = 0
        /\ ~(NowHeld /\ \E k \in 1..Appended : NewEntry(k).decision_type = "PREMARKET_EXIT")
\* The report's own stance and confidence.
OwnStance == Val(last.report).report_stance
OwnConf == Val(last.report).report_confidence

\* C19 (as claimed): without an advisor answer process_new_report decides as
\* the report alone dictates: a FLAT ticker opens exactly on BUY/SELL with the
\* report's confidence >= CONFIDENCE_ACT, the stance and confidences written
\* are the report's own, and no override is recorded.
C19_ReportAlone ==
    (IsPNR /\ last.answer = NULL) =>
        /\ PreFlat => (NowHeld <=> (OwnStance \in {"BUY", "SELL"} /\ Val(OwnConf) >= CONFIDENCE_ACT))
        /\ \A k \in 1..Appended :
             /\ ~NewEntry(k).is_override
             /\ NewEntry(k).decision_type \in {"ENTRY", "STANCE_UPDATE"} =>
                  /\ NewEntry(k).new_stance = OwnStance
                  /\ NewEntry(k).confidence = OwnConf
                  /\ NewEntry(k).report_confidence = OwnConf
                  /\ NewEntry(k).house_confidence = OwnConf
        /\ \A i \in 1..Len(positions) :
             positions[i].was_overridden = (i <= Len(last.pre) /\ last.pre[i].was_overridden)
\* The advisor's own confidence number in the last answer.
HasPct == IsPNR /\ last.answer # NULL /\ Val(last.answer).house_confidence_pct # NULL
Pct == Val(last.answer).house_confidence_pct
Recorded(k) == NewEntry(k).decision_type \in {"ENTRY", "STANCE_UPDATE"}

\* C20 (as claimed): an answer carrying house_confidence_pct replaces the
\* house confidence even when the stances agree: a FLAT ticker opens exactly
\* when the final stance is BUY/SELL and that number is >= CONFIDENCE_ACT, the
\* number is what is stored as house_confidence and stance_confidence (row
\* and log), and the stored report_confidence is the report's own value.
C20_HousePctReplaces ==
    HasPct =>
        /\ PreFlat => (NowHeld <=> (LastStance \in {"BUY", "SELL"} /\ Val(Pct) >= CONFIDENCE_ACT))
        /\ \A k \in 1..Appended : Recorded(k) =>
             /\ NewEntry(k).house_confidence = Pct
             /\ NewEntry(k).confidence = Pct
             /\ NewEntry(k).report_confidence = OwnConf
             /\ positions[CurId].house_confidence = Pct
             /\ positions[CurId].stance_confidence = Pct
             /\ positions[CurId].report_confidence = OwnConf

\* A BUY report at 80 with an agreeing advisor at 50 opens nothing.
C20_AgreeingAtFifty ==
    /\ HasPct /\ PreFlat /\ ~NowHeld
    /\ OwnStance = "BUY" /\ OwnConf = Some(80)
    /\ Val(last.answer).decision = "BUY" /\ Pct = Some(50)
    /\ Appended = 1 /\ NewEntry(1).decision_type = "STANCE_UPDATE"
    /\ NewEntry(1).house_confidence = Some(50) /\ NewEntry(1).report_confidence = Some(80)

\* The override condition as the claim words it, on the advisor's answer and
\* the two confidences of the call.
ClaimedOverride ==
    /\ last.answer # NULL
    /\ Val(last.answer).decision # OwnStance
    /\ \/ Val(last.answer).confidence = "HIGH"
       \/ Abs(LastConf - ReportConfidence(Val(last.report))) >= 20

\* The row the decision produced or acted on: the row an ENTRY opened, else the
\* row the call found (the placeholder it created when it found none).
ActedRow ==
    IF \E k \in 1..Appended : NewEntry(k).decision_type = "ENTRY" THEN Len(positions)
    ELSE IF PreId # 0 THEN PreId
    ELSE Len(last.pre) + 1

\* C21 (as claimed): an override happens exactly when the advisor's stance
\* differs from the report's and (its level is HIGH or the two confidences are
\* 20 or more apart); then the advisor's stance drives the matrix, every reason
\* logged starts with "House Override:" and the position produced or acted on
\* has was_overridden set; otherwise no reason carries the prefix and no
\* row's was_overridden changes.
C21_Override ==
    IsPNR =>
        IF ClaimedOverride
        THEN /\ \A k \in 1..Appended :
                  /\ "House Override:" \in {NewEntry(k).reason[j] : j \in 1..Len(NewEntry(k).reason)}
                  /\ NewEntry(k).decision_type \in {"ENTRY", "STANCE_UPDATE"} =>
                       NewEntry(k).new_stance = Val(last.answer).decision
             /\ Appended >= 1
             /\ positions[ActedRow].was_overridden
        ELSE /\ \A k \in 1..Appended :
                  "House Override:" \notin {NewEntry(k).reason[j] : j \in 1..Len(NewEntry(k).reason)}
             /\ \A i \in 1..Len(positions) :
                  positions[i].was_overridden = (i <= Len(last.pre) /\ last.pre[i].was_overridden)

\* The override flag reaches the row in the one case where the call found a
\* row and only updated its stance.
C21_UpdatedRowFlagged ==
    (IsPNR /\ ClaimedOverride /\ Appended = 1 /\ NewEntry(1).decision_type = "STANCE_UPDATE") =>
        positions[ActedRow].was_overridden

\* C22 (as claimed): a house override made while processing a report leaves a
\* decision log entry flagged is_override, also when the ticker is FLAT and
\* only a stance update is made, so that the override total of the analytics
\* grows with it.
C22_OverrideLogged ==
    (IsPNR /\ LastOverride) =>
        /\ \E k \in 1..Appended : NewEntry(k).is_override
        /\ OverrideTotal(decision_log) > OverrideTotal(SubSeq(decision_log, 1, last.pre_len))

\* The last pre-market check got an answer from the advisor.
IsPM == last.op = "premarket_dd" /\ last.llm /\ last.answer # NULL
UrgentExit == Val(last.answer).action = "EXIT" /\ Val(last.answer).urgency = "HIGH"
WithDuckOf(r, q) == [r EXCEPT !.is_ducking = q.is_ducking, !.duck_reason = q.duck_reason]
Flags(P) == [i \in 1..Len(P) |-> P[i].is_ducking]

\* C23 (as claimed): an answer recommending duck-and-cover on a HELD position
\* sets is_ducking and the duck reason on it and makes no trade (the row stays
\* HELD, nothing else on it changes); with no HELD position no flag changes.
C23_DuckFlagOnly ==
    IsPM =>
        /\ (Val(last.answer).duck_and_cover /\ PreHeld) =>
              /\ positions[PreId].is_ducking
              /\ positions[PreId].duck_reason = Some(Val(last.answer).reason)
              /\ positions[PreId].state = "HELD"
              /\ positions[PreId] = WithDuckOf(last.pre[PreId], positions[PreId])
              /\ Len(positions) = Len(last.pre)
        /\ ~PreHeld => Flags(positions) = Flags(last.pre)

\* C23 (amended): the flag and the reason are set on the HELD position and a
\* PREMARKET_DUCK entry is logged; the position stays HELD with nothing else
\* changed unless the same answer is EXIT with urgency HIGH and a quote is
\* available, in which case the flagged position is then closed at the quote;
\* with no HELD position nothing changes at all.
C23_DuckFlag ==
    IsPM =>
        /\ (Val(last.answer).duck_and_cover /\ PreHeld) =>
              /\ positions[PreId].is_ducking
              /\ positions[PreId].duck_reason = Some(Val(last.answer).reason)
              /\ Len(positions) = Len(last.pre)
              /\ \A i \in 1..Len(positions) : i # PreId => positions[i] = last.pre[i]
              /\ Appended >= 1 /\ NewEntry(1).decision_type = "PREMARKET_DUCK"
              /\ IF UrgentExit /\ last.price # NULL
                 THEN /\ positions[PreId].closed_at # NULL
                      /\ positions[PreId].exit_price = last.price
                 ELSE /\ positions[PreId].state = "HELD"
                      /\ positions[PreId] = WithDuckOf(last.pre[PreId], positions[PreId])
        /\ ~PreHeld => (positions = last.pre /\ Appended = 0)

C23_Witness ==
    /\ IsPM /\ PreHeld /\ Val(last.answer).duck_and_cover /\ ~UrgentExit
    /\ ~last.pre[PreId].is_ducking
    /\ positions[PreId].is_ducking /\ positions[PreId].state = "HELD"
    /\ Appended = 1

\* The flag is left alone on a FLAT placeholder row.
C23_FlatUnflagged ==
    /\ IsPM /\ PreId # 0 /\ ~PreHeld /\ Val(last.answer).duck_and_cover
    /\ positions = last.pre

\* C24: premarket_dd closes the HELD position exactly when an advisor is given,
\* its answer is EXIT with urgency HIGH and a quote is available; the close is
\* at the quote, and in every other case (HOLD, DUCK, EXIT at a lower urgency,
\* no answer, no advisor, no quote) the position is still HELD.
C24_UrgentExitOnly ==
    (last.op = "premarket_dd" /\ PreHeld) =>
        IF last.llm /\ last.answer # NULL /\ UrgentExit /\ last.price # NULL
        THEN /\ positions[PreId].closed_at # NULL
             /\ positions[PreId].state = "FLAT"
             /\ positions[PreId].exit_price = last.price
             /\ Head(Val(positions[PreId].exit_reason)) = "PRE-MARKET URGENT EXIT:"
        ELSE /\ positions[PreId].closed_at = NULL
             /\ positions[PreId].state = "HELD"
             /\ positions[PreId].exit_price = NULL
             /\ ClosedRows(positions) = ClosedRows(last.pre)

C24_Witness ==
    /\ IsPM /\ PreHeld /\ UrgentExit /\ ~Val(last.answer).duck_and_cover /\ last.price # NULL
    /\ positions[PreId].closed_at # NULL
    /\ Appended = 2 /\ NewEntry(1).decision_type = "EXIT" /\ NewEntry(2).decision_type = "PREMARKET_EXIT"

\* EXIT at a lower urgency leaves the position HELD.
C24_LowUrgencyStays ==
    /\ IsPM /\ PreHeld /\ Val(last.answer).action = "EXIT" /\ Val(last.answer).urgency = "LOW"
    /\ last.price # NULL /\ positions = last.pre

\* The tables the last operation found.
PreDB == DB(last.pre, SubSeq(decision_log, 1, last.pre_len))
IsSell == last.op = "duck_and_cover_sell"
Flagged == PreHeld /\ last.pre[PreId].is_ducking

\* C25: duck_and_cover_sell on a HELD position with is_ducking set and a quote
\* p closes it with exit_price = duck_exit_price = p and duck_exit_time
\* recorded and logs one EXIT entry; on a HELD position without the flag, on
\* a FLAT ticker or without a quote nothing changes; and with
\* DUCK_COVER_ENABLED off the same call changes nothing on the same tables.
C25_DuckSell ==
    IsSell =>
        /\ IF Flagged /\ last.price # NULL
           THEN /\ positions[PreId].closed_at # NULL
                /\ positions[PreId].state = "FLAT"
                /\ positions[PreId].exit_price = last.price
                /\ positions[PreId].duck_exit_price = last.price
                /\ positions[PreId].duck_exit_time # NULL
                /\ Len(positions) = Len(last.pre)
                /\ \A i \in 1..Len(positions) : i # PreId => positions[i] = last.pre[i]
                /\ Appended = 1 /\ NewEntry(1).decision_type = "EXIT"
           ELSE positions = last.pre /\ Appended = 0
        /\ DuckSell(FALSE, PreDB, last.price, clock) = PreDB

C25_Witness ==
    /\ IsSell /\ Flagged /\ last.price = Some(85)
    /\ positions[PreId].duck_exit_price = Some(85)
    /\ positions[PreId].closed_at # NULL /\ Appended = 1

\* A HELD position without the flag is left alone.
C25_UnflaggedStays ==
    /\ IsSell /\ PreHeld /\ ~last.pre[PreId].is_ducking /\ positions = last.pre

IsRebuy == last.op = "duck_and_cover_rebuy"
Opened == Len(positions) > Len(last.pre)

\* The three gates of the re-entry, on the latest report and the advisor's answer.
RebuyHouseConf == IF last.answer # NULL THEN Val(last.answer).house_confidence_pct ELSE Val(OwnConf)
RebuyGates ==
    /\ last.report # NULL
    /\ Val(OwnConf) >= DUCK_MIN_CONFIDENCE
    /\ last.answer # NULL => Val(last.answer).action # "STAY_OUT"
    /\ RebuyHouseConf >= CONFIDENCE_ACT

\* C26: duck_and_cover_rebuy opens a position only when the latest report's
\* confidence is >= DUCK_MIN_CONFIDENCE, the advisor, if it answers, does not
\* say STAY_OUT, and the house confidence (the advisor's number, the report's
\* confidence without an answer) is >= CONFIDENCE_ACT; when a gate fails no
\* row changes and nothing is logged.
C26_RebuyGates ==
    IsRebuy =>
        /\ Opened => RebuyGates
        /\ NowHeld /\ ~PreHeld => RebuyGates
        /\ ~RebuyGates => (positions = last.pre /\ Appended = 0)

C26_Witness ==
    /\ IsRebuy /\ Opened /\ ~PreHeld /\ NowHeld
    /\ last.answer # NULL /\ Val(last.answer).action = "REBUY"
    /\ RebuyHouseConf >= CONFIDENCE_ACT

\* Each gate fails alone somewhere: the report gate, the advisor's STAY_OUT,
\* the advisor's number, and the report's confidence without an answer.
C26_GateReport == IsRebuy /\ last.report # NULL /\ Val(OwnConf) < DUCK_MIN_CONFIDENCE /\ positions = last.pre
C26_GateStayOut == IsRebuy /\ last.answer # NULL /\ Val(last.answer).action = "STAY_OUT" /\ RebuyHouseConf >= CONFIDENCE_ACT /\ positions = last.pre
C26_GateHouse == IsRebuy /\ last.answer # NULL /\ Val(last.answer).action = "REBUY" /\ RebuyHouseConf < CONFIDENCE_ACT /\ positions = last.pre
C26_GateAlone == IsRebuy /\ last.price # NULL /\ last.answer = NULL /\ Val(OwnConf) < CONFIDENCE_ACT /\ positions = last.pre

\* C27 (as claimed): a re-entry follows the latest report's stance: LONG on
\* BUY, SHORT on SELL, and no position is opened on HOLD or FADE.
C27_RebuyDirection ==
    (IsRebuy /\ last.report # NULL) =>
        /\ Opened => \/ OwnStance = "BUY" /\ positions[Len(positions)].direction = "LONG"
                     \/ OwnStance = "SELL" /\ positions[Len(positions)].direction = "SHORT"
        /\ OwnStance \in {"HOLD", "FADE"} => (~Opened /\ positions = last.pre)

\* On BUY and SELL the direction is the report's.
C27_BuySellDirection ==
    (IsRebuy /\ Opened /\ OwnStance \in {"BUY", "SELL"}) =>
        positions[Len(positions)].direction = (IF OwnStance = "BUY" THEN "LONG" ELSE "SHORT")

\* The open rows of the watched ticker that are HELD.
OpenHeld(P) == {i \in OpenIds(P, WATCHED_TICKER) : P[i].state = "HELD"}

\* C28: enter_position called while a position is HELD (the re-entry of
\* duck_and_cover_rebuy finding one) closes that position at the same price
\* and then opens the new one: exactly two decisions are appended, an EXIT
\* whose reason starts with "Reversing:" and then an ENTRY, and exactly one
\* HELD position is open afterwards, the new one.
C28_ReversalEntry ==
    (IsRebuy /\ PreHeld /\ Opened) =>
        /\ positions[PreId].closed_at # NULL
        /\ positions[PreId].state = "FLAT"
        /\ positions[PreId].exit_price = last.price
        /\ Head(Val(positions[PreId].exit_reason)) = "Reversing:"
        /\ Len(positions) = Len(last.pre) + 1
        /\ Appended = 2
        /\ NewEntry(1).decision_type = "EXIT" /\ Head(NewEntry(1).reason) = "Reversing:"
        /\ NewEntry(2).decision_type = "ENTRY"
        /\ OpenHeld(positions) = {Len(positions)}
        /\ positions[Len(positions)].entry_price = last.price

C28_Witness ==
    /\ IsRebuy /\ PreHeld /\ Opened
    /\ Appended = 2 /\ NewEntry(1).decision_type = "EXIT" /\ NewEntry(2).decision_type = "ENTRY"
    /\ Cardinality(OpenHeld(positions)) = 1

\* The decisions of type ty logged for ticker t.
Logged(t, ty) == {k \in 1..Len(decision_log) : decision_log[k].ticker = t /\ decision_log[k].decision_type = ty}
OpenedRows(t) == {i \in 1..Len(positions) : positions[i].ticker = t /\ positions[i].entry_price # NULL}
ClosedRowsOf(t) == {i \in 1..Len(positions) : positions[i].ticker = t /\ positions[i].closed_at # NULL}

\* C29: after any sequence of operations, for every ticker the number of ENTRY
\* decisions equals the number of rows ever opened as HELD and the number of
\* EXIT decisions equals the number of closed rows.
C29_LogCounts ==
    \A t \in Tickers :
        /\ Cardinality(Logged(t, "ENTRY")) = Cardinality(OpenedRows(t))
        /\ Cardinality(Logged(t, "EXIT")) = Cardinality(ClosedRowsOf(t))

C29_Witness ==
    /\ Cardinality(Logged(WATCHED_TICKER, "ENTRY")) = 2
    /\ Cardinality(Logged(WATCHED_TICKER, "EXIT")) = 1
    /\ Cardinality(ClosedRowsOf(WATCHED_TICKER)) = 1
    /\ NowHeld

\* The passive rows of ticker t.
PassiveRows(t) == {i \in 1..Len(passive_position) : passive_position[i].ticker = t}

\* C30: a ticker has at most one passive row, every passive row is active and
\* has an entry price, and no step of the engine, the tracker or
\* ensure_passive_position changes or removes a passive row once it exists.
C30_PassiveFixed ==
    /\ [](\A t \in Tickers : Cardinality(PassiveRows(t)) <= 1)
    /\ [](\A i \in 1..Len(passive_position) : passive_position[i].is_active /\ passive_position[i].entry_price # NULL)
    /\ [][/\ Len(passive_position') >= Len(passive_position)
          /\ \A i \in 1..Len(passive_position) : passive_position'[i] = passive_position[i]]_vars

\* ensure_passive_position called again at another quote, later, on a ticker
\* whose passive row exists.
C30_Witness ==
    /\ last.op = "ensure_passive_position" /\ last.price # NULL
    /\ PassiveRows(last.ticker) # {}
    /\ \A i \in PassiveRows(last.ticker) :
         /\ passive_position[i].entry_price # last.price
         /\ passive_position[i].entry_time # Some(clock)
    /\ Len(decision_log) > 0

\* C31 (as claimed): processing a report of ticker T leaves the rows and the
\* decision log entries of every other ticker as they were and acts on T: the
\* rows it adds or changes and the decisions it logs are T's, and it logs one.
C31_OwnTickerOnly ==
    IsPNR =>
        LET T == Val(last.report).ticker IN
        /\ \A i \in 1..Len(last.pre) : last.pre[i].ticker # T => positions[i] = last.pre[i]
        /\ \A i \in (Len(last.pre) + 1)..Len(positions) : positions[i].ticker = T
        /\ \A k \in 1..Appended : NewEntry(k).ticker = T
        /\ Appended >= 1

\* For a report of the first watched stock the call does stay on its ticker.
C31_FirstStockOnly ==
    (IsPNR /\ Val(last.report).ticker = WATCHED_TICKER) => C31_OwnTickerOnly

\* The open row of the ticker the last exit_position call was for.
IsExit == last.op = "exit_position"
ExitId == get_current_position(last.pre, last.ticker)

\* C32: exit_position on a ticker with no open row, or with a FLAT row,
\* returns with no position row modified and no decision logged.
C32_ExitNothingOpen ==
    (IsExit /\ (ExitId = 0 \/ last.pre[ExitId].state = "FLAT")) =>
        /\ positions = last.pre
        /\ Appended = 0

C32_Witness ==
    /\ IsExit /\ ExitId # 0 /\ last.pre[ExitId].state = "FLAT"
    /\ positions = last.pre /\ Appended = 0
    /\ ClosedRows(positions) # {}

\* The same on a ticker that has no row at all, and a real exit for contrast.
C32_NoRow == IsExit /\ ExitId = 0 /\ positions = last.pre /\ Len(positions) > 0
C32_RealExit == IsExit /\ ExitId # 0 /\ last.pre[ExitId].state = "HELD" /\ positions[ExitId].closed_at # NULL /\ Appended = 1

\* The decisions the analytics read: those of the first watched stock.
Decisions == get_recent_decisions(decision_log, WATCHED_TICKER)

\* C33: on every state the engine reaches the analytics raise no
\* ZeroDivisionError; the win rate is 0 with no closed trade and the override
\* rate is 0 with no report-triggered decision, also when overrides exist.
C33_NoDivisionByZero ==
    /\ WinRate(positions, WATCHED_TICKER) # ZeroDivisionError
    /\ OverrideRate(Decisions) # ZeroDivisionError
    /\ ClosedPositions(positions, WATCHED_TICKER) = {} => WinRate(positions, WATCHED_TICKER) = Frac(0, 1)
    /\ ReportDecisions(Decisions) = 0 => OverrideRate(Decisions) = Frac(0, 1)

\* A flagged override in a log without any report-triggered decision: a
\* position re-entered by duck_and_cover_rebuy and closed by the crash rule.
C33_Witness ==
    /\ OverrideTotal(Decisions) > 0
    /\ ReportDecisions(Decisions) = 0
    /\ ClosedPositions(positions, WATCHED_TICKER) # {}

\* The rates are real quotients where there is something to divide by.
C33_RateComputed ==
    /\ OverrideTotal(Decisions) = 1 /\ ReportDecisions(Decisions) = 1
    /\ OverrideRate(Decisions) = Frac(100, 1)

\* A nullable confidence column is NULL or within [0, 100].
InRange(c) == c = NULL \/ (Val(c) >= 0 /\ Val(c) <= 100)

\* C34 (as claimed): with report confidences and advisor numbers in [0, 100],
\* the report_confidence, house_confidence and stance_confidence of every
\* position row and the confidences of every decision log entry are within
\* [0, 100], also when the house confidence comes from the advisor's level.
C34_ConfidenceRange ==
    /\ \A i \in 1..Len(positions) :
         /\ InRange(positions[i].report_confidence)
         /\ InRange(positions[i].house_confidence)
         /\ InRange(positions[i].stance_confidence)
    /\ \A k \in 1..Len(decision_log) :
         /\ InRange(decision_log[k].report_confidence)
         /\ InRange(decision_log[k].house_confidence)
         /\ InRange(decision_log[k].confidence)

\* With the advisor's own number, or without an advisor, the range is kept.
C34_RangeWithNumber ==
    (IsPNR /\ (last.answer = NULL \/ Val(last.answer).house_confidence_pct # NULL)) =>
        \A k \in 1..Appended :
            InRange(NewEntry(k).house_confidence) /\ InRange(NewEntry(k).confidence)

\* The last operation observed a price of the watched ticker while its
\* position was HELD, and the position is still the same HELD row.
Observed ==
    /\ last.op \in {"autonomous_dd", "track_prices"}
    /\ last.ticker = WATCHED_TICKER /\ last.price # NULL
    /\ PreHeld /\ NowHeld /\ CurId = PreId

\* C35 (as claimed): while a position is HELD its peak_price is at least and
\* its trough_price at most every price observed for the ticker since entry,
\* by a tracking sample (stored or suppressed) or by an engine check.
C35_Watermarks ==
    Observed =>
        /\ Val(positions[CurId].peak_price) >= Val(last.price)
        /\ Val(positions[CurId].trough_price) <= Val(last.price)

\* A tracking sample that is stored does move the watermarks.
C35_StoredSample ==
    (Observed /\ last.op = "track_prices" /\ last.stored) =>
        /\ Val(positions[CurId].peak_price) >= Val(last.price)
        /\ Val(positions[CurId].trough_price) <= Val(last.price)

\* C36: a closed row (closed_at set) is never changed by a later operation and
\* no row is ever deleted; realised_pnl_pct is NULL on every row that was
\* never closed and set, with state FLAT, on every closed row.
C36_ClosedRowsFixed ==
    /\ [](\A i \in 1..Len(positions) :
            IF positions[i].closed_at = NULL
            THEN positions[i].realised_pnl_pct = NULL
            ELSE positions[i].realised_pnl_pct # NULL /\ positions[i].state = "FLAT")
    /\ [][/\ Len(positions') >= Len(positions)
          /\ \A i \in 1..Len(positions) :
               positions[i].closed_at # NULL => positions'[i] = positions[i]]_vars

\* A closed row with a position opened after it that the tracker has since
\* marked up.
C36_Witness ==
    \E i \in ClosedRows(positions) :
        /\ NowHeld /\ CurId > i
        /\ Val(positions[CurId].peak_price) > Val(positions[CurId].entry_price)
        /\ positions[i].realised_pnl_pct # NULL

\* The rows of ticker t that are open and HELD.
OpenHeldOf(t) == {i \in OpenIds(positions, t) : positions[i].state = "HELD"}

\* C37: under sequential execution a ticker never has two rows that are open
\* (closed_at NULL) and HELD at once, and get_current_position returns the
\* HELD row whenever there is one.
C37_OneHeldRow ==
    \A t \in Tickers :
        /\ Cardinality(OpenHeldOf(t)) <= 1
        /\ OpenHeldOf(t) # {} => get_current_position(positions, t) \in OpenHeldOf(t)

\* A HELD row beside an older open placeholder: the lookup returns the HELD row.
C37_Witness ==
    /\ Cardinality(OpenIds(positions, WATCHED_TICKER)) = 2
    /\ Cardinality(OpenHeldOf(WATCHED_TICKER)) = 1
    /\ CurId \in OpenHeldOf(WATCHED_TICKER)
    /\ ClosedRows(positions) # {}

\* The position opened last before the call was closed by a duck sell.
LastOpened == SetMax(HeldRows(last.pre))
Ducked ==
    /\ HeldRows(last.pre) # {}
    /\ last.pre[LastOpened].closed_at # NULL
    /\ last.pre[LastOpened].duck_exit_price # NULL

C38_ReentryAfterDuck ==
    (IsRebuy /\ Ducked /\ RebuyGates /\ last.price # NULL /\ OwnStance \in {"BUY", "SELL"}) => Opened

\* C39 (as claimed): duck_and_cover_rebuy run while a position is already HELD
\* leaves the position table and the decision log as they were.
C39_RebuyIdempotent ==
    (IsRebuy /\ PreHeld) => (positions = last.pre /\ Appended = 0)

\* A rebuy that is stopped by its gates changes nothing, HELD or not.
C39_GatedRebuyNoChange ==
    (IsRebuy /\ (last.price = NULL \/ ~RebuyGates)) => (positions = last.pre /\ Appended = 0)

====
